---- MODULE Spec2Model ----
(***************************************************************************)
(* Profit-and-loss dashboard (src/app.py): the load step, the filter       *)
(* engine, the aggregator, the variance layer and the insight rules,       *)
(* as a state machine over the session state and the outputs of a run of   *)
(* the script.                                                             *)
(*                                                                         *)
(* Text is a sequence of code points ("2024" is <<50,48,50,52>>), so that  *)
(* slicing, stripping, parsing and lexicographic order are computed, not   *)
(* assumed.  Column names are TLA+ strings, the Korean names of the source *)
(* romanised (the table is next to COST_COLUMNS).  Amounts are integers;   *)
(* a percentage is an exact fraction num/den, the IEEE values +inf and NaN *)
(* are kinds of their own.                                                 *)
(***************************************************************************)
EXTENDS Integers, Sequences, FiniteSets, TLC

VARIABLES page, uploaded_file, cache, df, w, view, args, result

session == <<page, uploaded_file, cache, df, w, view>>
harness == <<args, result>>
vars == <<page, uploaded_file, cache, df, w, view, args, result>>

None == [k |-> "None"]

-----------------------------------------------------------------------------
(* Text *)

Str(digits) == [i \in 1..Len(digits) |-> 48 + digits[i]]

S_NA == <<78, 47, 65>>
S_nan == <<110, 97, 110>>
S_Q1 == <<81, 49>>
S_Q2 == <<81, 50>>
S_Q3 == <<81, 51>>
S_Q4 == <<81, 52>>
S_space == <<32>>
S_dot0 == <<46, 48>>

IsDigit(c) == 48 <= c /\ c <= 57

Min2(a, b) == IF a <= b THEN a ELSE b

\* s[a:b] of Python, 0-based, clamped to the length
Slice(s, a, b) == SubSeq(s, a + 1, Min2(b, Len(s)))

RECURSIVE LStrip0(_)
\* s.lstrip('0')
LStrip0(s) == IF s # <<>> /\ Head(s) = 48 THEN LStrip0(Tail(s)) ELSE s

RECURSIVE DigitsOf(_)
DigitsOf(n) == IF n < 10 THEN <<48 + n>> ELSE Append(DigitsOf(n \div 10), 48 + (n % 10))

\* str(n) for an int n >= 0
StrOfInt(n) == DigitsOf(n)

RECURSIVE ValueOf(_)
ValueOf(s) == IF s = <<>> THEN 0 ELSE 10 * ValueOf(SubSeq(s, 1, Len(s) - 1)) + (s[Len(s)] - 48)

\* int(s) succeeds: over the code points used here, a non-empty run of digits
IntParses(s) == s # <<>> /\ \A i \in 1..Len(s) : IsDigit(s[i])

RECURSIVE LexLess(_, _)
\* s < t of Python strings
LexLess(s, t) ==
    IF t = <<>> THEN FALSE
    ELSE IF s = <<>> THEN TRUE
    ELSE IF Head(s) # Head(t) THEN Head(s) < Head(t)
    ELSE LexLess(Tail(s), Tail(t))

LexLeq(s, t) == s = t \/ LexLess(s, t)

RECURSIVE TupleLess(_, _)
\* order of tuples of strings (group keys)
TupleLess(a, b) ==
    IF b = <<>> THEN FALSE
    ELSE IF a = <<>> THEN TRUE
    ELSE IF Head(a) # Head(b) THEN LexLess(Head(a), Head(b))
    ELSE TupleLess(Tail(a), Tail(b))

-----------------------------------------------------------------------------
(* Columns.  Source name -> name here:                                     *)
(*   yyyymm 'nyeon-wol' period key, year, month, quarter, year_quarter,    *)
(*   sort_key, revenue_code, campus, brand, business_unit, revenue,        *)
(*   total_cost, operating_profit.                                         *)

COL_PERIOD == "yyyymm"
FILTER_COLUMNS == <<"revenue_code", "campus", "brand", "business_unit">>
COL_REVENUE == "revenue"

COST_COLUMNS ==
    << "manager_A", "manager_B", "manager_C",
       "instructor_A", "instructor_B", "instructor_C", "instructor_D",
       "insurance_employee", "insurance_instructor_D", "severance_accrual",
       "cancellation_unsettled", "incentive_direct", "incentive_indirect",
       "security", "hq_salary", "hq_insurance", "hq_severance_accrual",
       "shuttle", "shuttle_attendant",
       "rent_A", "rent_B", "rent_C", "rent_D",
       "mgmt_fee_A", "mgmt_fee_B", "mgmt_fee_C", "mgmt_fee_D",
       "cleaning_A", "cleaning_B", "cleaning_C", "cleaning_D",
       "restoration_provision",
       "depr_common_A", "depr_campus_B", "depr_building_B", "depr_common_B",
       "misc_1", "sundry_expenses", "card_fee", "air_purifier",
       "water_purifier", "caps", "copier", "LMS",
       "marketing_building", "marketing_campus", "misc2_building", "misc2_campus" >>

COST_CATEGORIES ==
    << [category |-> "personnel",
        cols |-> <<"manager_A", "manager_B", "manager_C", "instructor_A",
                   "instructor_B", "instructor_C", "instructor_D", "hq_salary">>],
       [category |-> "insurance_severance",
        cols |-> <<"insurance_employee", "insurance_instructor_D", "severance_accrual",
                   "hq_insurance", "hq_severance_accrual">>],
       [category |-> "incentive",
        cols |-> <<"incentive_direct", "incentive_indirect">>],
       [category |-> "rent_mgmt",
        cols |-> <<"rent_A", "rent_B", "rent_C", "rent_D",
                   "mgmt_fee_A", "mgmt_fee_B", "mgmt_fee_C", "mgmt_fee_D">>],
       [category |-> "cleaning",
        cols |-> <<"cleaning_A", "cleaning_B", "cleaning_C", "cleaning_D">>],
       [category |-> "depreciation",
        cols |-> <<"depr_common_A", "depr_campus_B", "depr_building_B",
                   "depr_common_B", "restoration_provision">>],
       [category |-> "operating",
        cols |-> <<"security", "shuttle", "shuttle_attendant", "air_purifier",
                   "water_purifier", "caps", "copier", "LMS">>],
       [category |-> "marketing",
        cols |-> <<"marketing_building", "marketing_campus">>],
       [category |-> "other",
        cols |-> <<"cancellation_unsettled", "misc_1", "sundry_expenses", "card_fee",
                   "misc2_building", "misc2_campus">>] >>

Range(s) == {s[i] : i \in 1..Len(s)}

CostSet == Range(COST_COLUMNS)
FilterSet == Range(FILTER_COLUMNS)
DERIVED_COLUMNS == {"year", "month", "quarter", "year_quarter", "sort_key",
                    "total_cost", "operating_profit"}

-----------------------------------------------------------------------------
(* Cells of the uploaded sheet: a number, a text or a blank (NaN).         *)

NumCell(n) == [k |-> "num", n |-> n]
StrCell(s) == [k |-> "str", s |-> s]
NaNCell == [k |-> "nan"]

\* get_quarter(month_str); the int() of its first line raises ValueError on
\* a text that is no integer, which "raises" reports
get_quarter(month_str) ==
    IF ~IntParses(month_str) THEN [raises |-> TRUE]
    ELSE LET month == ValueOf(month_str) IN
         [raises |-> FALSE,
          value |-> IF 1 <= month /\ month <= 3 THEN S_Q1
                    ELSE IF 4 <= month /\ month <= 6 THEN S_Q2
                    ELSE IF 7 <= month /\ month <= 9 THEN S_Q3
                    ELSE IF 10 <= month /\ month <= 12 THEN S_Q4
                    ELSE S_NA]

-----------------------------------------------------------------------------
(* load_data *)

\* pd.to_numeric(cell, errors='coerce'): a number, or NaN for a blank or a
\* text that is no number
to_numeric(cell) ==
    IF cell.k = "num" THEN cell
    ELSE IF cell.k = "str" /\ IntParses(cell.s) THEN NumCell(ValueOf(cell.s))
    ELSE NaNCell

\* .fillna(0) of a numeric cell
fillna0(cell) == IF cell.k = "nan" THEN 0 ELSE cell.n

\* .fillna('N/A').astype(str) of a dimension cell
fillna_NA_str(cell) ==
    IF cell.k = "nan" THEN S_NA
    ELSE IF cell.k = "num" THEN StrOfInt(cell.n)
    ELSE cell.s

\* df['yyyymm'].astype(str): the column read from the sheet is int64 when
\* all its cells are integers, float64 when some are blank and none is a
\* text, and object otherwise
astype_str(cells) ==
    LET n == Len(cells)
        hasStr == \E i \in 1..n : cells[i].k = "str"
        hasNaN == \E i \in 1..n : cells[i].k = "nan"
    IN [i \in 1..n |->
          IF cells[i].k = "str" THEN cells[i].s
          ELSE IF cells[i].k = "nan" THEN S_nan
          ELSE IF hasNaN /\ ~hasStr THEN StrOfInt(cells[i].n) \o S_dot0
          ELSE StrOfInt(cells[i].n)]

RECURSIVE SumOver(_, _)
\* sum of f[c] over the columns of the list cols
SumOver(f, cols) == IF cols = <<>> THEN 0 ELSE f[Head(cols)] + SumOver(f, Tail(cols))

\* the cost columns of a loaded row: coerced when every cost column is
\* present (lines 350-352), left as read otherwise (lines 356-359)
\* (a cost value of the ledger stays a cell: NumCell(n) once coerced)
CoerceCost(cell, all_costs_present) ==
    IF all_costs_present THEN NumCell(fillna0(to_numeric(cell))) ELSE cell

\* (mutant) the row total taken over the first 44 names of the list
RowTotalCost_First44(costs, all_costs_present) ==
    IF all_costs_present
      THEN SumOver([c \in CostSet |-> costs[c].n], SubSeq(COST_COLUMNS, 1, 44))
      ELSE 0

\* df_loaded[COST_COLUMNS].sum(axis=1), or the constant 0 of line 358
RowTotalCost(costs, all_costs_present) ==
    IF all_costs_present
      THEN SumOver([c \in CostSet |-> costs[c].n], COST_COLUMNS)
      ELSE 0

\* (mutant) the subtraction of line 355 left out
RowOperatingProfit_NoSubtract(revenue, total_cost, all_costs_present) == revenue

\* line 355, or line 359
RowOperatingProfit(revenue, total_cost, all_costs_present) ==
    IF all_costs_present THEN revenue - total_cost ELSE revenue

\* (mutant) the frame derived so far is returned instead of None
LoadFailed_ReturnsFrame(why) ==
    [ok |-> TRUE, error |-> why, warning |-> FALSE, all_costs_present |-> FALSE,
     columns |-> {}, rows |-> <<>>]

LoadFailed(why) == [ok |-> FALSE, error |-> why]

\* the required-column checks of lines 322, 336 and 342
MissingRequired(cols) ==
    IF COL_PERIOD \notin cols THEN "missing_period"
    ELSE IF \E c \in FilterSet : c \notin cols THEN "missing_filter"
    ELSE IF COL_REVENUE \notin cols THEN "missing_revenue"
    ELSE "no"

DeriveRow(raw_row, cols, period, all_costs_present) ==
    LET year == Slice(period, 0, 4)
        month == Slice(period, 4, 6)
        quarter == get_quarter(month).value
        revenue == fillna0(to_numeric(raw_row[COL_REVENUE]))
        costs == [c \in CostSet \cap cols |-> CoerceCost(raw_row[c], all_costs_present)]
        total_cost == RowTotalCost(costs, all_costs_present)
    IN [c \in cols \cup DERIVED_COLUMNS |->
          CASE c = COL_PERIOD -> period
            [] c = "year" -> year
            [] c = "month" -> month
            [] c = "quarter" -> quarter
            [] c = "year_quarter" -> year \o S_space \o quarter
            [] c = "sort_key" -> ValueOf(period)
            [] c \in FilterSet -> fillna_NA_str(raw_row[c])
            [] c = COL_REVENUE -> revenue
            [] c = "total_cost" -> total_cost
            [] c = "operating_profit" ->
                   RowOperatingProfit(revenue, total_cost, all_costs_present)
            [] OTHER -> costs[c]]

\* load_data(file): [ok |-> FALSE, error] stands for the None it returns,
\* "exception" for the except branch of line 364
load_data(file) ==
    IF COL_PERIOD \notin file.cols THEN LoadFailed("missing_period")
    ELSE
    LET n == Len(file.rows)
        period == astype_str([i \in 1..n |-> file.rows[i][COL_PERIOD]])
        all_costs_present == \A c \in CostSet : c \in file.cols
    IN IF \E i \in 1..n : get_quarter(Slice(period[i], 4, 6)).raises
         THEN LoadFailed("exception")
       ELSE IF \E i \in 1..n : ~IntParses(period[i])
         THEN LoadFailed("exception")
       ELSE IF MissingRequired(file.cols) # "no"
         THEN LoadFailed(MissingRequired(file.cols))
       ELSE [ok |-> TRUE,
             warning |-> ~all_costs_present,
             all_costs_present |-> all_costs_present,
             columns |-> file.cols \cup DERIVED_COLUMNS,
             rows |-> [i \in 1..n |->
                         DeriveRow(file.rows[i], file.cols, period[i],
                                   all_costs_present)]]

-----------------------------------------------------------------------------
(* Uploaded sheets the model draws from *)

MaxRawRows == 2

AllRawCols == {COL_PERIOD, COL_REVENUE} \cup FilterSet \cup CostSet

S_A == <<65>>
S_B == <<66>>
S_x == <<120>>

PeriodCells ==
    { NumCell(202401), NumCell(202411), NumCell(202413),
      NumCell(202400), NumCell(202403), NumCell(202404), NumCell(202406),
      NumCell(202407), NumCell(202409), NumCell(202410), NumCell(202412),
      NumCell(2024),
      StrCell(Str(<<2, 0, 2, 4, 1>>)),
      StrCell(Str(<<2, 0, 2, 4>>) \o S_x \o Str(<<1>>)),
      StrCell(Str(<<2, 0, 2, 3, 0, 2>>)),
      NaNCell }
RevenueCells == { NumCell(1000), StrCell(Str(<<1, 2>>)), StrCell(S_x), NaNCell }
CostCells == { NumCell(600), StrCell(Str(<<7>>)), StrCell(S_x), NaNCell }
DimCells == { StrCell(S_A), StrCell(S_B), NaNCell }

RawRow(period, revenue, cost, dim) ==
    [c \in AllRawCols |->
       CASE c = COL_PERIOD -> period
         [] c = COL_REVENUE -> revenue
         [] c = "campus" -> dim
         [] c \in FilterSet -> StrCell(S_A)
         [] c = "manager_A" -> cost
         [] c = "rent_A" -> NumCell(100)
         [] OTHER -> NumCell(0)]

\* rows that differ from a well-formed row in at most one cell, and a row
\* with a cost under the last name of COST_COLUMNS
RawRows ==
    {RawRow(p, NumCell(1000), NumCell(600), StrCell(S_A)) : p \in PeriodCells}
    \cup {RawRow(NumCell(202401), r, NumCell(600), StrCell(S_A)) : r \in RevenueCells}
    \cup {RawRow(NumCell(202401), NumCell(1000), c, StrCell(S_A)) : c \in CostCells}
    \cup {RawRow(NumCell(202401), NumCell(1000), NumCell(600), d) : d \in DimCells}
    \cup {[RawRow(NumCell(202401), NumCell(1000), NumCell(600), StrCell(S_A))
              EXCEPT !["misc2_campus"] = NumCell(50)]}

\* the sheet has every column, or lacks one required column, or lacks cost
\* columns
RawColumnSets ==
    {AllRawCols}
    \cup {AllRawCols \ {c} : c \in {COL_PERIOD, COL_REVENUE} \cup FilterSet}
    \cup {AllRawCols \ {"rent_B"}, AllRawCols \ (CostSet \ {"manager_A", "rent_A"})}

Restrict(f, S) == [x \in S |-> f[x]]

RawFile(cols, rows) == [cols |-> cols, rows |-> [i \in 1..Len(rows) |-> Restrict(rows[i], cols)]]

SeqsUpTo(S, n) == UNION {[1..m -> S] : m \in 1..n}

-----------------------------------------------------------------------------
(* load_data applied to a sheet *)

InitLoad ==
    /\ \E cols \in RawColumnSets, rows \in SeqsUpTo(RawRows, MaxRawRows) :
           args = [fn |-> "load_data", file |-> RawFile(cols, rows)]
    /\ result = None
    /\ page = "upload" /\ uploaded_file = None /\ cache = <<>>
    /\ df = None /\ w = None /\ view = None

CallLoad ==
    /\ args.fn = "load_data"
    /\ result = None
    /\ result' = load_data(args.file)
    /\ UNCHANGED <<args, session>>

NextLoad == CallLoad

SpecLoad == InitLoad /\ [][NextLoad]_vars

Loaded == args.fn = "load_data" /\ result # None /\ result.ok

RequiredColumns == {COL_PERIOD, COL_REVENUE} \cup FilterSet

\* every period key of the sheet reads as an integer text of 5 or more digits
PeriodsWellFormed(file) ==
    \A i \in 1..Len(file.rows) :
       LET cell == file.rows[i][COL_PERIOD] IN
       \/ cell.k = "num" /\ Len(StrOfInt(cell.n)) >= 5
       \/ cell.k = "str" /\ IntParses(cell.s) /\ Len(cell.s) >= 5

\* the number a raw cell stands for under the coercion policy
Coerced(cell) ==
    IF cell.k = "num" THEN cell.n
    ELSE IF cell.k = "str" /\ IntParses(cell.s) THEN ValueOf(cell.s)
    ELSE 0

\* C7: after a successful load operating_profit = revenue - total_cost on
\* every row; with all cost columns present total_cost is the sum of the
\* row's cost fields; with a cost column absent the load still succeeds
\* (when the required columns and period keys allow it) with total_cost = 0
\* and operating_profit = revenue
C7_ProfitIdentity ==
    /\ Loaded =>
         \A i \in 1..Len(result.rows) :
            LET r == result.rows[i] IN
            /\ r["operating_profit"] = r[COL_REVENUE] - r["total_cost"]
            /\ CostSet \subseteq args.file.cols =>
                  r["total_cost"] = SumOver([c \in CostSet |-> r[c].n], COST_COLUMNS)
            /\ ~(CostSet \subseteq args.file.cols) =>
                  r["total_cost"] = 0 /\ r["operating_profit"] = r[COL_REVENUE]
    /\ ( /\ args.fn = "load_data" /\ result # None
         /\ ~(CostSet \subseteq args.file.cols)
         /\ RequiredColumns \subseteq args.file.cols
         /\ PeriodsWellFormed(args.file) ) => result.ok

C7_Witness ==
    /\ Loaded
    /\ ~(CostSet \subseteq args.file.cols)
    /\ \E i \in 1..Len(result.rows) :
          /\ result.rows[i][COL_REVENUE] = 1000
          /\ result.rows[i]["rent_A"] = NumCell(100)
          /\ result.rows[i]["operating_profit"] = 1000

\* C8: a sheet that lacks a required column yields no ledger
C8_MissingRequiredGivesNone ==
    (args.fn = "load_data" /\ result # None
       /\ ~(RequiredColumns \subseteq args.file.cols))
    => ~result.ok

C8_Witness ==
    /\ args.fn = "load_data" /\ result # None
    /\ "brand" \notin args.file.cols
    /\ ~result.ok /\ result.error = "missing_filter"

\* C9: after a successful load revenue and every cost field present hold
\* the number read, 0 for a blank or a text that is no number, and no row is
\* dropped, with all cost columns present and in the degraded mode alike
C9_NumericCoercion ==
    Loaded =>
      /\ Len(result.rows) = Len(args.file.rows)
      /\ \A i \in 1..Len(result.rows) :
            /\ result.rows[i][COL_REVENUE] = Coerced(args.file.rows[i][COL_REVENUE])
            /\ \A c \in CostSet \cap args.file.cols :
                  result.rows[i][c] = NumCell(Coerced(args.file.rows[i][c]))

-----------------------------------------------------------------------------
(* Filter engine (script lines 801-981).  A filtered frame keeps the index *)
(* labels of the ledger rows it selects, so it is the set of those labels. *)

Index(ledger) == 1..Len(ledger.rows)

ColumnValues(ledger, col) == {ledger.rows[i][col] : i \in Index(ledger)}

all_years(ledger) == ColumnValues(ledger, "year")
all_months_two_digits(ledger) == ColumnValues(ledger, "month")
display_months(ledger) == {LStrip0(m) : m \in all_months_two_digits(ledger)}

\* max() of a non-empty list of strings
MaxStr(S) == CHOOSE m \in S : \A x \in S : LexLeq(x, m)

\* month_map = {m.lstrip('0'): m for m in all_months_two_digits}: a later
\* month of the sorted list overwrites an earlier one with the same key
month_map(ledger) ==
    [d \in display_months(ledger) |->
        MaxStr({m \in all_months_two_digits(ledger) : LStrip0(m) = d})]

selected_months_of(ledger, selected_display) ==
    {month_map(ledger)[d] : d \in selected_display}

\* the code points of the first option of the comparison year selectbox
NOT_SELECTED == <<49440, 53469, 32, 50504, 54632>>

\* the filter widgets the sidebar shows for an analysis menu (lines 827-860)
MenuFilterColumns(analysis_menu) ==
    IF analysis_menu = "revenue_code" THEN {"revenue_code"}
    ELSE {"business_unit", "brand", "campus"}

\* (mutant) an empty filter set excludes every row
ApplyDynamicFilters_EmptyExcludes(ledger, frame, selected_filter_values) ==
    {i \in frame : \A col \in DOMAIN selected_filter_values :
                      ledger.rows[i][col] \in selected_filter_values[col]}

\* the loop "for filter_col, filter_values in selected_filter_values.items()"
ApplyDynamicFilters(ledger, frame, selected_filter_values) ==
    {i \in frame : \A col \in DOMAIN selected_filter_values :
                      selected_filter_values[col] # {} =>
                          ledger.rows[i][col] \in selected_filter_values[col]}

\* lines 925-935
FilterTarget(ledger, wd) ==
    LET selected_months == selected_months_of(ledger, wd.selected_display_months)
    IN IF wd.selected_years # {} /\ selected_months # {}
         THEN ApplyDynamicFilters(ledger,
                 {i \in Index(ledger) :
                     /\ ledger.rows[i]["year"] \in wd.selected_years
                     /\ ledger.rows[i]["month"] \in selected_months},
                 wd.selected_filter_values)
         ELSE {}

\* (mutant) the range stops before the latest selected month
MonthsInRange_Strict(ledger, max_month) ==
    {m \in all_months_two_digits(ledger) : LexLess(m, max_month)}

\* [m for m in all_months_two_digits if m <= max_month]
MonthsInRange(ledger, max_month) ==
    {m \in all_months_two_digits(ledger) : LexLeq(m, max_month)}

\* lines 941-954
FilterTrendBase(ledger, wd) ==
    LET selected_months == selected_months_of(ledger, wd.selected_display_months)
    IN IF wd.selected_years # {} /\ selected_months # {}
         THEN ApplyDynamicFilters(ledger,
                 {i \in Index(ledger) :
                     /\ ledger.rows[i]["year"] \in wd.selected_years
                     /\ ledger.rows[i]["month"]
                            \in MonthsInRange(ledger, MaxStr(selected_months))},
                 wd.selected_filter_values)
         ELSE {}

is_comparison_active(wd) == wd.comparison_year # NOT_SELECTED

\* lines 957-967: reached only when the target years and months are chosen
FilterComparison(ledger, wd) ==
    LET comparison_selected_months ==
            selected_months_of(ledger, wd.comparison_selected_display_months)
    IN IF /\ wd.selected_years # {}
          /\ selected_months_of(ledger, wd.selected_display_months) # {}
          /\ is_comparison_active(wd) /\ comparison_selected_months # {}
         THEN ApplyDynamicFilters(ledger,
                 {i \in Index(ledger) :
                     /\ ledger.rows[i]["year"] = wd.comparison_year
                     /\ ledger.rows[i]["month"] \in comparison_selected_months},
                 wd.selected_filter_values)
         ELSE {}

\* lines 969-981
FilterCompTrendBase(ledger, wd) ==
    LET comparison_selected_months ==
            selected_months_of(ledger, wd.comparison_selected_display_months)
    IN IF /\ wd.selected_years # {}
          /\ selected_months_of(ledger, wd.selected_display_months) # {}
          /\ is_comparison_active(wd) /\ comparison_selected_months # {}
         THEN ApplyDynamicFilters(ledger,
                 {i \in Index(ledger) :
                     /\ ledger.rows[i]["year"] = wd.comparison_year
                     /\ ledger.rows[i]["month"]
                          \in MonthsInRange(ledger, MaxStr(comparison_selected_months))},
                 wd.selected_filter_values)
         ELSE {}

-----------------------------------------------------------------------------
(* The filter engine applied to a ledger and a sidebar selection *)

MaxPeriods == 3

AnalysisMenus == {"revenue_code", "business_unit", "brand", "campus"}

FilterPeriodCells ==
    << NumCell(202301), NumCell(202302), NumCell(202401), NumCell(202402),
       NumCell(202410), StrCell(Str(<<2, 0, 2, 4, 1>>)) >>

RECURSIVE FilterRawRows(_, _)
\* one row per chosen period and campus, in the order of the period list
FilterRawRows(chosen, k) ==
    IF k > Len(FilterPeriodCells) THEN <<>>
    ELSE (IF k \in chosen
            THEN << RawRow(FilterPeriodCells[k], NumCell(1000), NumCell(600), StrCell(S_A)),
                    RawRow(FilterPeriodCells[k], NumCell(1000), NumCell(600), StrCell(S_B)) >>
            ELSE <<>>)
         \o FilterRawRows(chosen, k + 1)

FilterLedgers ==
    {load_data(RawFile(AllRawCols, FilterRawRows(P, 1))) :
        P \in {Q \in SUBSET (1..Len(FilterPeriodCells)) :
                  Q # {} /\ Cardinality(Q) <= MaxPeriods}}

FilterSelections(ledger) ==
    {[analysis_menu |-> m, selected_years |-> ys, selected_display_months |-> ms,
      selected_filter_values |-> fv, comparison_year |-> NOT_SELECTED,
      comparison_selected_display_months |-> {}] :
        m \in AnalysisMenus,
        ys \in SUBSET all_years(ledger),
        ms \in SUBSET display_months(ledger),
        fv \in UNION {[MenuFilterColumns(mm) -> SUBSET {S_A, S_B}] : mm \in AnalysisMenus}}

InitFilter ==
    /\ \E ledger \in FilterLedgers :
         \E wd \in FilterSelections(ledger) :
            /\ DOMAIN wd.selected_filter_values = MenuFilterColumns(wd.analysis_menu)
            /\ \A c \in DOMAIN wd.selected_filter_values :
                  wd.selected_filter_values[c] \subseteq ColumnValues(ledger, c)
            /\ args = [fn |-> "filter", ledger |-> ledger, w |-> wd]
    /\ result = None
    /\ page = "upload" /\ uploaded_file = None /\ cache = <<>>
    /\ df = None /\ w = None /\ view = None

CallFilter ==
    /\ args.fn = "filter"
    /\ result = None
    /\ result' = [df_target |-> FilterTarget(args.ledger, args.w),
                  df_trend_base |-> FilterTrendBase(args.ledger, args.w)]
    /\ UNCHANGED <<args, session>>

NextFilter == CallFilter

SpecFilter == InitFilter /\ [][NextFilter]_vars

Filtered == args.fn = "filter" /\ result # None

\* C5: a ledger row is in the exact selection iff its year is among the
\* selected years, its month among the selected months and, for every
\* dimension with a non-empty filter set, its value is in that set; an empty
\* year set or month set gives the empty selection
C5_ExactSelection ==
    Filtered =>
      LET ledger == args.ledger
          years == args.w.selected_years
          months == selected_months_of(ledger, args.w.selected_display_months)
          fv == args.w.selected_filter_values
      IN /\ \A i \in Index(ledger) :
               i \in result.df_target <=>
                 /\ ledger.rows[i]["year"] \in years
                 /\ ledger.rows[i]["month"] \in months
                 /\ \A c \in DOMAIN fv : fv[c] = {} \/ ledger.rows[i][c] \in fv[c]
         /\ (years = {} \/ months = {}) => result.df_target = {}

C5_Witness ==
    /\ Filtered
    /\ args.w.selected_filter_values = [business_unit |-> {}, brand |-> {S_A}, campus |-> {S_B}]
    /\ Cardinality(args.w.selected_years) = 1
    /\ Cardinality(args.w.selected_display_months) = 2
    /\ Cardinality(result.df_target) = 2
    /\ Len(args.ledger.rows) = 6

\* C6: a ledger row is in the range-to-date selection iff its year is among
\* the selected years, its month is <= the greatest selected month (as
\* text) and the dimension filters hold; so the exact selection is contained
\* in it
C6_RangeToDate ==
    Filtered =>
      LET ledger == args.ledger
          years == args.w.selected_years
          months == selected_months_of(ledger, args.w.selected_display_months)
          fv == args.w.selected_filter_values
      IN (years # {} /\ months # {}) =>
           /\ \A i \in Index(ledger) :
                 i \in result.df_trend_base <=>
                   /\ ledger.rows[i]["year"] \in years
                   /\ \E m \in months : LexLeq(ledger.rows[i]["month"], m)
                   /\ \A c \in DOMAIN fv : fv[c] = {} \/ ledger.rows[i][c] \in fv[c]
           /\ result.df_target \subseteq result.df_trend_base

C6_Witness ==
    /\ Filtered
    /\ args.w.selected_display_months = {Str(<<1, 0>>)}
    /\ Cardinality(result.df_target) = 1
    /\ Cardinality(result.df_trend_base) = 2
    /\ \E i \in result.df_trend_base : args.ledger.rows[i]["month"] = Str(<<0, 2>>)

-----------------------------------------------------------------------------
(* Aggregator: aggregate_profit_trend (lines 369-394) *)

RECURSIVE SumCol(_, _, _)
\* df[col].sum() over the rows of a frame
SumCol(ledger, frame, col) ==
    IF frame = {} THEN 0
    ELSE LET i == CHOOSE j \in frame : TRUE
         IN ledger.rows[i][col] + SumCol(ledger, frame \ {i}, col)

RECURSIVE MinCol(_, _, _)
\* df[col].min() over the rows of a non-empty frame
MinCol(ledger, frame, col) ==
    LET i == CHOOSE j \in frame : TRUE
    IN IF frame = {i} THEN ledger.rows[i][col]
       ELSE Min2(ledger.rows[i][col], MinCol(ledger, frame \ {i}, col))

RECURSIVE SortedStrs(_)
\* the group keys of a groupby, in sorted order
SortedStrs(S) ==
    IF S = {} THEN <<>>
    ELSE LET m == CHOOSE x \in S : \A y \in S : LexLeq(x, y)
         IN <<m>> \o SortedStrs(S \ {m})

RECURSIVE InsertBySortKey(_, _)
InsertBySortKey(sorted, x) ==
    IF sorted = <<>> THEN <<x>>
    ELSE IF x.sort_key < Head(sorted).sort_key THEN <<x>> \o sorted
    ELSE <<Head(sorted)>> \o InsertBySortKey(Tail(sorted), x)

\* (mutant) the groups stay in the order of the groupby
SortBySortKey_GroupOrder(rows) == rows

RECURSIVE SortBySortKey(_)
\* sort_values(sort_col); rows with equal keys keep their order
SortBySortKey(rows) ==
    IF rows = <<>> THEN <<>>
    ELSE InsertBySortKey(SortBySortKey(SubSeq(rows, 1, Len(rows) - 1)), rows[Len(rows)])

RECURSIVE CumSum_Exclusive(_, _)
\* (mutant) the running sum leaves the row's own value out
CumSum_Exclusive(rows, col) ==
    IF rows = <<>> THEN <<>>
    ELSE LET before == CumSum_Exclusive(SubSeq(rows, 1, Len(rows) - 1), col)
             last == rows[Len(rows)]
         IN Append(before,
               [last EXCEPT ![col] =
                   IF before = <<>> THEN 0
                   ELSE before[Len(before)][col] + rows[Len(rows) - 1][col]])

RECURSIVE CumSum(_, _)
\* df_agg[col].cumsum()
CumSum(rows, col) ==
    IF rows = <<>> THEN <<>>
    ELSE LET before == CumSum(SubSeq(rows, 1, Len(rows) - 1), col)
             last == rows[Len(rows)]
         IN Append(before,
               [last EXCEPT ![col] =
                   IF before = <<>> THEN @ ELSE before[Len(before)][col] + @])

TIME_MONTHLY == "yyyymm"
TIME_QUARTERLY == "year_quarter"

\* lines 373-383: the grouped, sorted and labelled rows
TrendGroups(ledger, frame, time_col) ==
    IF time_col = TIME_QUARTERLY
      THEN LET label(i) == ledger.rows[i]["year"] \o S_space \o ledger.rows[i]["quarter"]
               keys == SortedStrs({label(i) : i \in frame})
           IN SortBySortKey(
                [k \in 1..Len(keys) |->
                   LET g == {i \in frame : label(i) = keys[k]}
                   IN [operating_profit |-> SumCol(ledger, g, "operating_profit"),
                       revenue |-> SumCol(ledger, g, COL_REVENUE),
                       sort_key |-> MinCol(ledger, g, "sort_key"),
                       display_label |-> keys[k]]])
      ELSE LET keys == SortedStrs({ledger.rows[i][COL_PERIOD] : i \in frame})
           IN SortBySortKey(
                [k \in 1..Len(keys) |->
                   LET g == {i \in frame : ledger.rows[i][COL_PERIOD] = keys[k]}
                   IN [operating_profit |-> SumCol(ledger, g, "operating_profit"),
                       revenue |-> SumCol(ledger, g, COL_REVENUE),
                       sort_key |-> ValueOf(keys[k]),
                       display_label |-> LStrip0(Slice(keys[k], 4, 6))]])

DropSortKey(rows) ==
    [k \in 1..Len(rows) |->
        [operating_profit |-> rows[k].operating_profit,
         revenue |-> rows[k].revenue,
         display_label |-> rows[k].display_label]]

\* a table that was not produced (None); a produced table has rows, since
\* it is built from a non-empty frame
NoTable == <<>>

\* aggregate_profit_trend(df_input, time_col, 'sort_key', is_cumulative, _):
\* None for an empty frame, else the rows without sort_col and time_col
aggregate_profit_trend(ledger, frame, time_col, is_cumulative) ==
    IF frame = {} THEN NoTable
    ELSE LET df_agg == TrendGroups(ledger, frame, time_col)
         IN DropSortKey(IF is_cumulative
                          THEN CumSum(CumSum(df_agg, "operating_profit"), COL_REVENUE)
                          ELSE df_agg)

-----------------------------------------------------------------------------
(* aggregate_profit_trend applied to a trend base *)

MaxTrendRows == 3

TrendPeriodCells ==
    { NumCell(202301), NumCell(202401), NumCell(202404), NumCell(202410), NumCell(20241) }

TrendRawRows ==
    {RawRow(p, NumCell(1000), NumCell(600), StrCell(S_A)) : p \in TrendPeriodCells}
    \cup {RawRow(p, NumCell(500), NumCell(2000), StrCell(S_B)) : p \in TrendPeriodCells}

InitTrend ==
    /\ \E rows \in SeqsUpTo(TrendRawRows, MaxTrendRows),
          time_col \in {TIME_MONTHLY, TIME_QUARTERLY} :
            args = [fn |-> "aggregate_profit_trend",
                    ledger |-> load_data(RawFile(AllRawCols, rows)),
                    time_col |-> time_col]
    /\ result = None
    /\ page = "upload" /\ uploaded_file = None /\ cache = <<>>
    /\ df = None /\ w = None /\ view = None

CallTrend ==
    /\ args.fn = "aggregate_profit_trend"
    /\ result = None
    /\ result' = [plain |-> aggregate_profit_trend(args.ledger, Index(args.ledger),
                                                   args.time_col, FALSE),
                  cumulative |-> aggregate_profit_trend(args.ledger, Index(args.ledger),
                                                        args.time_col, TRUE)]
    /\ UNCHANGED <<args, session>>

NextTrend == CallTrend

SpecTrend == InitTrend /\ [][NextTrend]_vars

RECURSIVE PrefixSum(_, _, _)
PrefixSum(rows, col, i) == IF i = 0 THEN 0 ELSE rows[i][col] + PrefixSum(rows, col, i - 1)

\* C10: for the month and the quarter bucket the cumulative trend has the
\* rows and labels of the plain trend in the same order, and revenue and
\* operating profit of its i-th row are the sums of the first i plain values
C10_PrefixSumLaw ==
    (args.fn = "aggregate_profit_trend" /\ result # None) =>
       /\ Len(result.cumulative) = Len(result.plain)
       /\ \A i \in 1..Len(result.plain) :
             /\ result.cumulative[i].display_label = result.plain[i].display_label
             /\ result.cumulative[i].revenue = PrefixSum(result.plain, "revenue", i)
             /\ result.cumulative[i].operating_profit
                   = PrefixSum(result.plain, "operating_profit", i)

C10_Witness ==
    /\ args.fn = "aggregate_profit_trend" /\ result # None
    /\ args.time_col = TIME_QUARTERLY
    /\ Len(result.plain) = 3
    /\ result.plain[2].operating_profit = -1600
    /\ result.cumulative[2].operating_profit = -1300
    /\ result.cumulative[3].operating_profit = -1000
    /\ result.cumulative[3].revenue = 2500

RECURSIVE BucketsByMinKey(_, _, _)
\* the buckets of a frame by the column col, least minimum sort key first
BucketsByMinKey(ledger, frame, col) ==
    IF frame = {} THEN <<>>
    ELSE LET first == CHOOSE i \in frame :
                         \A j \in frame : ledger.rows[i].sort_key <= ledger.rows[j].sort_key
             bucket == {i \in frame : ledger.rows[i][col] = ledger.rows[first][col]}
         IN <<bucket>> \o BucketsByMinKey(ledger, frame \ bucket, col)

\* C11: the quarter bucket gives one row per year-quarter of the input, in
\* ascending order of the least period key of the bucket; the month bucket
\* gives one row per period key, in ascending numeric order; the revenue and
\* the operating profit of a row are the sums over the rows of its bucket.
C11_OneRowPerBucket ==
    (args.fn = "aggregate_profit_trend" /\ result # None) =>
       LET ledger == args.ledger
           quarterly == args.time_col = TIME_QUARTERLY
           col == IF quarterly THEN "year_quarter" ELSE COL_PERIOD
           label(i) == ledger.rows[i][col]
           buckets == BucketsByMinKey(ledger, Index(ledger), col)
       IN /\ Len(result.plain) = Cardinality({label(i) : i \in Index(ledger)})
          /\ Len(result.plain) = Len(buckets)
          /\ \A k \in 1..Len(buckets) :
                /\ result.plain[k].revenue = SumCol(ledger, buckets[k], COL_REVENUE)
                /\ result.plain[k].operating_profit
                      = SumCol(ledger, buckets[k], "operating_profit")
                /\ quarterly =>
                      \A i \in buckets[k] : result.plain[k].display_label = label(i)

\* a quarterly trend of three sheet rows in two buckets, where the bucket
\* with the later label has the least period key and so comes first
C11_Witness ==
    /\ args.fn = "aggregate_profit_trend" /\ result # None
    /\ args.time_col = TIME_QUARTERLY
    /\ Len(args.ledger.rows) = 3
    /\ Len(result.plain) = 2
    /\ LexLess(result.plain[2].display_label, result.plain[1].display_label)
    /\ result.plain[1].revenue = 1500
    /\ result.plain[2].revenue = 1000

-----------------------------------------------------------------------------
(* Delta / variance layer.  A percentage is [kind |-> "fin", num, den]     *)
(* (the fraction num/den, den # 0) or [kind |-> "inf"] (+infinity).        *)

PctZero == [kind |-> "fin", num |-> 0, den |-> 1]
PctInf == [kind |-> "inf"]

\* (delta / comparison) * 100
PctOf(delta, comparison) == [kind |-> "fin", num |-> delta * 100, den |-> comparison]

\* (mutant) a zero comparison value always gives 0
RateWhere_ZeroOnly(target, comparison) ==
    IF comparison = 0 THEN PctZero ELSE PctOf(target - comparison, comparison)

\* np.where(comp == 0, np.where(target == 0, 0, np.inf), delta / comp * 100)
\* on columns (lines 1194-1195 and 1444-1445)
RateWhere(target, comparison) ==
    IF comparison = 0 THEN (IF target = 0 THEN PctZero ELSE PctInf)
    ELSE PctOf(target - comparison, comparison)

\* "(delta / comp * 100) if comp != 0 else 0" (lines 1041-1043, 459-460, 502)
RateOrZero(delta, comparison) ==
    IF comparison # 0 THEN PctOf(delta, comparison) ELSE PctZero

\* lines 428-431 of analyze_cost_breakdown
CostRate(target_val, comp_val) ==
    IF comp_val # 0 THEN PctOf(target_val - comp_val, comp_val)
    ELSE (IF target_val = 0 THEN PctZero ELSE PctInf)

\* lines 993-1002
breakdown_cols(analysis_menu) ==
    CASE analysis_menu = "revenue_code" -> <<"revenue_code">>
      [] analysis_menu = "business_unit" -> <<"business_unit", "brand", "campus">>
      [] analysis_menu = "brand" -> <<"brand", "campus">>
      [] analysis_menu = "campus" -> <<"campus">>
      [] OTHER -> <<"revenue_code">>

KeyOf(ledger, i, cols) == [k \in 1..Len(cols) |-> ledger.rows[i][cols[k]]]

RECURSIVE SortedTuples(_)
SortedTuples(S) ==
    IF S = {} THEN <<>>
    ELSE LET m == CHOOSE x \in S : \A y \in S : x = y \/ TupleLess(x, y)
         IN <<m>> \o SortedTuples(S \ {m})

\* (mutant) the sum is taken over the whole frame
GroupTotal_Ungrouped(ledger, frame, cols, key, col) == SumCol(ledger, frame, col)

\* frame.groupby(cols)[['revenue', 'operating_profit']].sum() of one key;
\* 0 stands for the fillna(0) of a key the frame does not have
GroupTotal(ledger, frame, cols, key, col) ==
    SumCol(ledger, {i \in frame : KeyOf(ledger, i, cols) = key}, col)

\* lines 1182-1200: df_display_raw, sorted by key as groupby and the outer
\* merge leave it
BreakdownTable(ledger, df_target, df_comparison, cols, with_comparison) ==
    LET tkeys == {KeyOf(ledger, i, cols) : i \in df_target}
        ckeys == {KeyOf(ledger, i, cols) : i \in df_comparison}
        keys == SortedTuples(IF with_comparison THEN tkeys \cup ckeys ELSE tkeys)
    IN [k \in 1..Len(keys) |->
          LET profit == GroupTotal(ledger, df_target, cols, keys[k], "operating_profit")
              revenue == GroupTotal(ledger, df_target, cols, keys[k], COL_REVENUE)
              comp_profit == GroupTotal(ledger, df_comparison, cols, keys[k], "operating_profit")
              comp_revenue == GroupTotal(ledger, df_comparison, cols, keys[k], COL_REVENUE)
          IN IF with_comparison
               THEN [key |-> keys[k],
                     operating_profit |-> profit,
                     operating_profit_delta |-> profit - comp_profit,
                     operating_profit_rate |-> RateWhere(profit, comp_profit),
                     revenue |-> revenue,
                     revenue_delta |-> revenue - comp_revenue,
                     revenue_rate |-> RateWhere(revenue, comp_revenue)]
               ELSE [key |-> keys[k], revenue |-> revenue, operating_profit |-> profit]]

RECURSIVE SumField(_, _)
\* the column sum of select_dtypes(number).sum()
SumField(rows, field) ==
    IF rows = <<>> THEN 0 ELSE Head(rows)[field] + SumField(Tail(rows), field)

\* lines 1210-1211 once the division has not raised
TotalRate(total, delta) ==
    IF total - delta = 0 THEN (IF total = 0 THEN PctZero ELSE PctInf)
    ELSE PctOf(delta, total - delta)

\* lines 1204-1214.  The sums are Python numbers (Series.to_dict), so the
\* division of lines 1210-1211, evaluated before np.where chooses, raises
\* ZeroDivisionError when the implied comparison total is 0, and the lookups
\* of line 1207 raise KeyError when the table has no variance columns.
GrandTotal(df_display_raw, has_variance, comparison_active) ==
    IF ~comparison_active
      THEN [error |-> "none",
            revenue |-> SumField(df_display_raw, "revenue"),
            operating_profit |-> SumField(df_display_raw, "operating_profit")]
    ELSE IF ~has_variance THEN [error |-> "KeyError"]
    ELSE LET profit == SumField(df_display_raw, "operating_profit")
             profit_delta == SumField(df_display_raw, "operating_profit_delta")
             revenue == SumField(df_display_raw, "revenue")
             revenue_delta == SumField(df_display_raw, "revenue_delta")
         IN IF profit - profit_delta = 0 \/ revenue - revenue_delta = 0
              THEN [error |-> "ZeroDivisionError"]
              ELSE [error |-> "none",
                    operating_profit |-> profit,
                    operating_profit_delta |-> profit_delta,
                    operating_profit_rate |-> TotalRate(profit, profit_delta),
                    revenue |-> revenue,
                    revenue_delta |-> revenue_delta,
                    revenue_rate |-> TotalRate(revenue, revenue_delta)]

-----------------------------------------------------------------------------
(* Cost breakdown analyzer: analyze_cost_breakdown (lines 398-442) *)

\* a cost column summed over a frame: Series.sum() skips blanks
CostCellValue(cell) == IF cell.k = "num" THEN cell.n ELSE 0

RECURSIVE SumCost(_, _, _)
SumCost(ledger, frame, col) ==
    IF frame = {} THEN 0
    ELSE LET i == CHOOSE j \in frame : TRUE
         IN CostCellValue(ledger.rows[i][col]) + SumCost(ledger, frame \ {i}, col)

\* a text among the summed cost cells: the sum or the subtraction that
\* follows it raises TypeError
HasTextCost(ledger, frame, cols) ==
    \E i \in frame : \E c \in cols \cap ledger.columns : ledger.rows[i][c].k = "str"

\* df[col].sum() if col in df.columns else 0
CostTotal(ledger, frame, col) ==
    IF col \in ledger.columns THEN SumCost(ledger, frame, col) ELSE 0

\* existing_cost_cols of line 1263
existing_cost_cols(ledger) == SelectSeq(COST_COLUMNS, LAMBDA c : c \in ledger.columns)

\* the result rows, in the order of cost_columns; df_comparison is {} for
\* None and for an empty frame (lines 411-419)
analyze_cost_breakdown(ledger, df_target, df_comparison, cost_columns) ==
    [k \in 1..Len(cost_columns) |->
        LET col == cost_columns[k]
            target_val == CostTotal(ledger, df_target, col)
            comp_val == CostTotal(ledger, df_comparison, col)
        IN [cost_item |-> col,
            target |-> target_val,
            comparison |-> comp_val,
            delta |-> target_val - comp_val,
            rate |-> CostRate(target_val, comp_val)]]

-----------------------------------------------------------------------------
(* Insight generator: generate_ai_insights (lines 446-565) *)

REVENUE_THRESHOLD == 5
PROFIT_THRESHOLD == 10
MARGIN_THRESHOLD == 10
ITEM_GROWTH_THRESHOLD == 20
MATERIALITY_FLOOR == 1000000
TOP_ITEMS == 3

RECURSIVE RatLess(_, _, _, _)
\* a/b < c/d for b > 0 and d > 0, without forming the products
RatLess(a, b, c, d) ==
    LET qa == a \div b
        qc == c \div d
        ra == a % b
        rc == c % d
    IN IF qa # qc THEN qa < qc
       ELSE IF rc = 0 THEN FALSE
       ELSE IF ra = 0 THEN TRUE
       ELSE RatLess(d, rc, b, ra)

PctNum(p) == IF p.den < 0 THEN -p.num ELSE p.num
PctDen(p) == IF p.den < 0 THEN -p.den ELSE p.den

\* rate > t and rate < t for a number t
PctGt(p, t) == p.kind = "inf" \/ RatLess(t, 1, PctNum(p), PctDen(p))
PctLt(p, t) == p.kind = "fin" /\ RatLess(PctNum(p), PctDen(p), t, 1)

\* a < b on percentages
PctLess(a, b) ==
    IF a.kind = "inf" THEN FALSE
    ELSE IF b.kind = "inf" THEN TRUE
    ELSE RatLess(PctNum(a), PctDen(a), PctNum(b), PctDen(b))

Insight(type, title, subject, rate) ==
    [type |-> type, title |-> title, subject |-> subject, rate |-> rate]

RECURSIVE SumCategory(_, _, _)
\* sum(df[col].sum() for col in cols if col in df.columns)
SumCategory(ledger, frame, cols) ==
    IF cols = <<>> THEN 0
    ELSE CostTotal(ledger, frame, Head(cols)) + SumCategory(ledger, frame, Tail(cols))

\* lines 497-509
category_changes(ledger, df_target, df_comparison, cost_categories) ==
    [k \in 1..Len(cost_categories) |->
        LET target_sum == SumCategory(ledger, df_target, cost_categories[k].cols)
            comp_sum == SumCategory(ledger, df_comparison, cost_categories[k].cols)
        IN [category |-> cost_categories[k].category,
            target |-> target_sum,
            comp |-> comp_sum,
            diff |-> target_sum - comp_sum,
            rate |-> RateOrZero(target_sum - comp_sum, comp_sum)]]

\* (mutant) the first category of the list, whatever its diff
TopIncrease_First(changes) == changes[1]

\* head(1) of sort_values('diff', ascending=False): the first category of
\* the list among those with the greatest diff
TopIncrease(changes) ==
    changes[CHOOSE k \in 1..Len(changes) :
               /\ \A j \in 1..Len(changes) : changes[j].diff <= changes[k].diff
               /\ \A j \in 1..(k - 1) : changes[j].diff < changes[k].diff]

\* tail(1) of the same order: the last category among those with the least diff
TopDecrease(changes) ==
    changes[CHOOSE k \in 1..Len(changes) :
               /\ \A j \in 1..Len(changes) : changes[j].diff >= changes[k].diff
               /\ \A j \in (k + 1)..Len(changes) : changes[j].diff > changes[k].diff]

RECURSIVE NLargest(_, _, _)
\* rows.nlargest(n, 'rate') over the positions cand of rows: greatest rate
\* first, the earlier row first among equal rates
NLargest(rows, cand, n) ==
    IF n = 0 \/ cand = {} THEN <<>>
    ELSE LET best == CHOOSE k \in cand :
                        \A j \in cand \ {k} :
                            \/ PctLess(rows[j].rate, rows[k].rate)
                            \/ ~PctLess(rows[k].rate, rows[j].rate) /\ k < j
         IN <<rows[best]>> \o NLargest(rows, cand \ {best}, n - 1)

\* lines 463-480
RevenueInsight(revenue_rate) ==
    IF PctGt(revenue_rate, REVENUE_THRESHOLD)
      THEN <<Insight("positive", "revenue_growth", "revenue", revenue_rate)>>
    ELSE IF PctLt(revenue_rate, -REVENUE_THRESHOLD)
      THEN <<Insight("negative", "revenue_decline", "revenue", revenue_rate)>>
    ELSE <<Insight("neutral", "revenue_flat", "revenue", revenue_rate)>>

\* (mutant) the profit rule uses the thresholds of the revenue rule
ProfitInsight_RevenueThreshold(profit_rate) ==
    IF PctGt(profit_rate, REVENUE_THRESHOLD)
      THEN <<Insight("positive", "profit_improved", "operating_profit", profit_rate)>>
    ELSE IF PctLt(profit_rate, -REVENUE_THRESHOLD)
      THEN <<Insight("negative", "profit_worsened", "operating_profit", profit_rate)>>
    ELSE <<>>

\* lines 483-494
ProfitInsight(profit_rate) ==
    IF PctGt(profit_rate, PROFIT_THRESHOLD)
      THEN <<Insight("positive", "profit_improved", "operating_profit", profit_rate)>>
    ELSE IF PctLt(profit_rate, -PROFIT_THRESHOLD)
      THEN <<Insight("negative", "profit_worsened", "operating_profit", profit_rate)>>
    ELSE <<>>

\* (mutant) the reduction insight comes before the increase insight
CategoryInsights_ReductionFirst(changes) ==
    LET top_increase == TopIncrease(changes)
        top_decrease == TopDecrease(changes)
    IN (IF top_decrease.diff < 0
          THEN <<Insight("positive", "cost_reduction", top_decrease.category, top_decrease.rate)>>
          ELSE <<>>)
       \o
       (IF top_increase.diff > 0
          THEN <<Insight("negative", "cost_increase", top_increase.category, top_increase.rate)>>
          ELSE <<>>)

\* lines 512-530
CategoryInsights(changes) ==
    LET top_increase == TopIncrease(changes)
        top_decrease == TopDecrease(changes)
    IN (IF top_increase.diff > 0
          THEN <<Insight("negative", "cost_increase", top_increase.category, top_increase.rate)>>
          ELSE <<>>)
       \o
       (IF top_decrease.diff < 0
          THEN <<Insight("positive", "cost_reduction", top_decrease.category, top_decrease.rate)>>
          ELSE <<>>)

RECURSIVE ItemInsightsOf(_)
ItemInsightsOf(items) ==
    IF items = <<>> THEN <<>>
    ELSE (IF PctGt(Head(items).rate, ITEM_GROWTH_THRESHOLD)
            THEN <<Insight("negative", "item_surge", Head(items).cost_item, Head(items).rate)>>
            ELSE <<>>)
         \o ItemInsightsOf(Tail(items))

\* (mutant) every material item is considered, not the first three
ItemInsights_AllItems(cost_analysis) ==
    ItemInsightsOf(NLargest(cost_analysis,
        {k \in 1..Len(cost_analysis) : cost_analysis[k].comparison > MATERIALITY_FLOOR},
        Len(cost_analysis)))

\* lines 533-545
ItemInsights(cost_analysis) ==
    ItemInsightsOf(NLargest(cost_analysis,
        {k \in 1..Len(cost_analysis) : cost_analysis[k].comparison > MATERIALITY_FLOOR},
        TOP_ITEMS))

\* lines 549-563
NoComparisonInsights(ledger, df_target, total_revenue_target, operating_profit_target) ==
    LET total_cost == IF "total_cost" \in ledger.columns
                        THEN SumCol(ledger, df_target, "total_cost") ELSE 0
        profit_margin == IF total_revenue_target # 0
                           THEN PctOf(operating_profit_target, total_revenue_target)
                           ELSE PctZero
    IN <<Insight("neutral", "current_period", "totals", PctZero)>>
       \o (IF total_cost > 0
             THEN <<Insight(IF PctGt(profit_margin, MARGIN_THRESHOLD)
                              THEN "positive" ELSE "negative",
                            "profit_margin", "operating_profit", profit_margin)>>
             ELSE <<>>)

\* generate_ai_insights; has_comparison is "df_comparison is not None and
\* not df_comparison.empty".  [error |-> "TypeError"] when a summed cost
\* cell is a text.
generate_ai_insights(ledger, df_target, df_comparison, has_comparison, cost_columns, cost_categories, total_revenue_target, total_revenue_comp, operating_profit_target, operating_profit_comp) ==
    IF has_comparison
      THEN IF HasTextCost(ledger, df_target \cup df_comparison, CostSet)
             THEN [error |-> "TypeError"]
             ELSE
             LET revenue_rate == RateOrZero(total_revenue_target - total_revenue_comp,
                                            total_revenue_comp)
                 profit_rate == RateOrZero(operating_profit_target - operating_profit_comp,
                                           operating_profit_comp)
                 changes == category_changes(ledger, df_target, df_comparison, cost_categories)
                 cost_analysis == analyze_cost_breakdown(ledger, df_target, df_comparison,
                                                         cost_columns)
             IN [error |-> "none",
                 revenue_rate |-> revenue_rate,
                 profit_rate |-> profit_rate,
                 category_changes |-> changes,
                 insights |-> RevenueInsight(revenue_rate) \o ProfitInsight(profit_rate)
                              \o CategoryInsights(changes) \o ItemInsights(cost_analysis)]
      ELSE [error |-> "none",
            insights |-> NoComparisonInsights(ledger, df_target, total_revenue_target,
                                              operating_profit_target)]

-----------------------------------------------------------------------------
(* Trend table (lines 1412-1460) *)

RECURSIVE MergeRows(_, _, _)
\* pd.merge(target, comp, on='display_label', how='outer').fillna(0): the
\* labels in sorted order, and for a label every pair of a target row and a
\* comparison row that carry it
MergeRows(labels, target, comp) ==
    IF labels = <<>> THEN <<>>
    ELSE LET lab == Head(labels)
             left == SelectSeq(target, LAMBDA r : r.display_label = lab)
             right == SelectSeq(comp, LAMBDA r : r.display_label = lab)
             zero == [revenue |-> 0, operating_profit |-> 0, display_label |-> lab]
             L == IF left = <<>> THEN <<zero>> ELSE left
             R == IF right = <<>> THEN <<zero>> ELSE right
         IN [k \in 1..(Len(L) * Len(R)) |->
               LET t == L[((k - 1) \div Len(R)) + 1]
                   c == R[((k - 1) % Len(R)) + 1]
               IN [display_label |-> lab,
                   operating_profit |-> t.operating_profit,
                   comp_operating_profit |-> c.operating_profit,
                   revenue |-> t.revenue,
                   comp_revenue |-> c.revenue]]
            \o MergeRows(Tail(labels), target, comp)

\* df_trend_raw: with a comparison trend lines 1431-1454, else 1457-1460
TrendTable(df_trend_target, df_trend_comp) ==
    IF df_trend_comp # NoTable
      THEN LET labels == SortedStrs({df_trend_target[k].display_label :
                                        k \in 1..Len(df_trend_target)}
                                    \cup {df_trend_comp[k].display_label :
                                        k \in 1..Len(df_trend_comp)})
               merged == MergeRows(labels, df_trend_target, df_trend_comp)
           IN [k \in 1..Len(merged) |->
                 [display_label |-> merged[k].display_label,
                  operating_profit |-> merged[k].operating_profit,
                  operating_profit_delta |->
                      merged[k].operating_profit - merged[k].comp_operating_profit,
                  operating_profit_rate |->
                      RateWhere(merged[k].operating_profit, merged[k].comp_operating_profit),
                  revenue |-> merged[k].revenue,
                  revenue_delta |-> merged[k].revenue - merged[k].comp_revenue,
                  revenue_rate |-> RateWhere(merged[k].revenue, merged[k].comp_revenue)]]
      ELSE df_trend_target

-----------------------------------------------------------------------------
(* One run of the analysis page over a loaded ledger (lines 924-1482) *)

\* lines 1011-1043
HeadlineTotals(ledger, current_df, df_comparison, with_comparison) ==
    LET total_revenue_target == SumCol(ledger, current_df, COL_REVENUE)
        total_cost_target == SumCol(ledger, current_df, "total_cost")
        operating_profit_target == SumCol(ledger, current_df, "operating_profit")
        total_revenue_comp == SumCol(ledger, df_comparison, COL_REVENUE)
        total_cost_comp == SumCol(ledger, df_comparison, "total_cost")
        operating_profit_comp == SumCol(ledger, df_comparison, "operating_profit")
    IN IF with_comparison
         THEN [with_comparison |-> TRUE,
               total_revenue_target |-> total_revenue_target,
               total_cost_target |-> total_cost_target,
               operating_profit_target |-> operating_profit_target,
               total_revenue_comp |-> total_revenue_comp,
               total_cost_comp |-> total_cost_comp,
               operating_profit_comp |-> operating_profit_comp,
               delta_revenue |-> total_revenue_target - total_revenue_comp,
               delta_cost |-> total_cost_target - total_cost_comp,
               delta_profit |-> operating_profit_target - operating_profit_comp,
               profit_rate |-> RateOrZero(operating_profit_target - operating_profit_comp,
                                          operating_profit_comp),
               revenue_rate |-> RateOrZero(total_revenue_target - total_revenue_comp,
                                           total_revenue_comp),
               cost_rate |-> RateOrZero(total_cost_target - total_cost_comp,
                                        total_cost_comp)]
         ELSE [with_comparison |-> FALSE,
               total_revenue_target |-> total_revenue_target,
               total_cost_target |-> total_cost_target,
               operating_profit_target |-> operating_profit_target,
               total_revenue_comp |-> 0,
               total_cost_comp |-> 0,
               operating_profit_comp |-> 0,
               delta_revenue |-> 0, delta_cost |-> 0, delta_profit |-> 0]

TimeCol(time_agg_type) == IF time_agg_type = "monthly" THEN TIME_MONTHLY ELSE TIME_QUARTERLY

\* the text of a rate cell (lines 1228-1231, 1241, 1349-1351, 1474-1477):
\* f"{x:,.1f} %" if not pd.isna(x) and x != np.inf
\*                else ('N/A' if x == 0 else 'Inf %')
FormatRate(x) ==
    IF x.kind # "inf" THEN [text |-> "number %", number |-> x]
    ELSE IF x = PctZero THEN [text |-> "N/A"]
    ELSE [text |-> "Inf %"]

\* the rate cells of a displayed table row; a table without variance
\* columns has none
RateTexts(row) ==
    IF "revenue_rate" \in DOMAIN row
      THEN [revenue_rate |-> FormatRate(row.revenue_rate),
            operating_profit_rate |-> FormatRate(row.operating_profit_rate)]
      ELSE [none |-> TRUE]

\* df_display with the grand-total row appended (lines 1217-1248)
BreakdownDisplay(df_display_raw, total_row_data) ==
    [k \in 1..(Len(df_display_raw) + 1) |->
        IF k <= Len(df_display_raw) THEN RateTexts(df_display_raw[k])
        ELSE RateTexts(total_row_data)]

\* df_trend_display (lines 1463-1477)
TrendDisplay(df_trend_raw) == [k \in 1..Len(df_trend_raw) |-> RateTexts(df_trend_raw[k])]

\* cost_display (lines 1337-1351)
CostDisplay(cost_df) == [k \in 1..Len(cost_df) |-> [rate |-> FormatRate(cost_df[k].rate)]]

\* the outputs of the run; a section that an exception kept from running
\* is None, and error names the exception.  df_plot_target and
\* df_plot_target_markers are the line and the markers of the monthly chart
\* (lines 1570 and 1574).
RunAnalysis(ledger, wd) ==
    LET current_df == FilterTarget(ledger, wd)
        df_trend_base == FilterTrendBase(ledger, wd)
        df_comparison == FilterComparison(ledger, wd)
        df_comp_trend_base == FilterCompTrendBase(ledger, wd)
        active == is_comparison_active(wd)
        with_comparison == active /\ df_comparison # {}
        frames == [df_target |-> current_df, df_trend_base |-> df_trend_base,
                   df_comparison |-> df_comparison,
                   df_comp_trend_base |-> df_comp_trend_base]
        nothing == [frames |-> frames, no_data |-> TRUE, error |-> "none",
                    totals |-> None, insights |-> None, df_display_raw |-> NoTable,
                    total_row_data |-> None, cost_df |-> NoTable, df_trend_raw |-> NoTable,
                    df_display |-> NoTable, cost_display |-> NoTable,
                    df_trend_display |-> NoTable,
                    df_plot_target |-> NoTable, df_plot_target_markers |-> NoTable]
    IN IF current_df = {} THEN nothing
       ELSE
       LET totals == HeadlineTotals(ledger, current_df, df_comparison, with_comparison)
           ai == generate_ai_insights(ledger, current_df, df_comparison, with_comparison,
                    COST_COLUMNS, COST_CATEGORIES,
                    totals.total_revenue_target, totals.total_revenue_comp,
                    totals.operating_profit_target, totals.operating_profit_comp)
           df_display_raw == BreakdownTable(ledger, current_df, df_comparison,
                                 breakdown_cols(wd.analysis_menu), with_comparison)
           total_row_data == GrandTotal(df_display_raw, with_comparison, active)
           cost_cols == existing_cost_cols(ledger)
           cost_raises == /\ cost_cols # <<>>
                          /\ HasTextCost(ledger, current_df \cup df_comparison, CostSet)
           cost_df == IF cost_cols # <<>>
                        THEN analyze_cost_breakdown(ledger, current_df, df_comparison, cost_cols)
                        ELSE NoTable
           time_col == TimeCol(wd.time_agg_type)
           df_trend_target == aggregate_profit_trend(ledger, df_trend_base, time_col,
                                                     wd.is_cumulative)
           df_trend_comp == IF active /\ df_comp_trend_base # {}
                              THEN aggregate_profit_trend(ledger, df_comp_trend_base,
                                                          time_col, wd.is_cumulative)
                              ELSE NoTable
           base == [nothing EXCEPT !.no_data = FALSE, !.totals = totals]
       IN IF ai.error # "none" THEN [base EXCEPT !.error = ai.error]
          ELSE IF total_row_data.error # "none"
            THEN [base EXCEPT !.error = total_row_data.error, !.insights = ai,
                              !.df_display_raw = df_display_raw]
          ELSE IF cost_raises
            THEN [base EXCEPT !.error = "TypeError", !.insights = ai,
                              !.df_display_raw = df_display_raw,
                              !.total_row_data = total_row_data,
                              !.df_display = BreakdownDisplay(df_display_raw, total_row_data)]
          ELSE LET df_trend_raw == TrendTable(df_trend_target, df_trend_comp)
               IN [base EXCEPT !.insights = ai,
                               !.df_display_raw = df_display_raw,
                               !.total_row_data = total_row_data,
                               !.df_display = BreakdownDisplay(df_display_raw, total_row_data),
                               !.cost_df = cost_df,
                               !.cost_display = CostDisplay(cost_df),
                               !.df_trend_raw = df_trend_raw,
                               !.df_trend_display = TrendDisplay(df_trend_raw),
                               !.df_plot_target =
                                   IF wd.time_agg_type = "monthly"
                                     THEN df_trend_target ELSE NoTable,
                               !.df_plot_target_markers =
                                   IF wd.time_agg_type = "monthly"
                                     THEN aggregate_profit_trend(ledger, current_df,
                                              time_col, wd.is_cumulative)
                                     ELSE NoTable]

-----------------------------------------------------------------------------
(* The analysis page run over a ledger and a selection *)

MaxRunRows == 3

\* period, campus, revenue, manager_A cost of the sheet rows drawn from
RunRowTypes ==
    << <<202301, S_A, 1000, 600>>, <<202301, S_A, 0, 0>>,
       <<202301, S_B, 500, 2000>>,
       <<202401, S_A, 1000, 600>>, <<202401, S_B, 3000, 600>>,
       <<202402, S_A, 0, 0>> >>

RunRawRow(t) ==
    [RawRow(NumCell(t[1]), NumCell(t[3]), NumCell(t[4]), StrCell(t[2]))
        EXCEPT !["rent_A"] = NumCell(0)]

\* sheets of up to MaxRunRows rows, rows in the order of the type list
RunSheets ==
    {[i \in 1..Len(ts) |-> RunRawRow(RunRowTypes[ts[i]])] :
        ts \in {q \in SeqsUpTo(1..Len(RunRowTypes), MaxRunRows) :
                   \A i \in 1..(Len(q) - 1) : q[i] <= q[i + 1]}}

RunSelections(ledger) ==
    {[analysis_menu |-> m,
      selected_years |-> ys,
      selected_display_months |-> display_months(ledger),
      selected_filter_values |-> [c \in MenuFilterColumns(m) |-> {}],
      time_agg_type |-> t,
      is_cumulative |-> cum,
      comparison_year |-> cy,
      comparison_selected_display_months |-> cm] :
        m \in {"campus", "brand"},
        ys \in (SUBSET all_years(ledger)) \ {{}},
        t \in {"monthly", "quarterly"},
        cum \in BOOLEAN,
        cy \in {NOT_SELECTED} \cup all_years(ledger),
        cm \in {{}, display_months(ledger)}}

InitRun ==
    /\ \E rows \in RunSheets :
         LET ledger == load_data(RawFile(AllRawCols, rows))
         IN \E wd \in RunSelections(ledger) :
               args = [fn |-> "run", ledger |-> ledger, w |-> wd]
    /\ result = None
    /\ page = "upload" /\ uploaded_file = None /\ cache = <<>>
    /\ df = None /\ w = None /\ view = None

CallRun ==
    /\ args.fn = "run"
    /\ result = None
    /\ result' = RunAnalysis(args.ledger, args.w)
    /\ UNCHANGED <<args, session>>

NextRun == CallRun

SpecRun == InitRun /\ [][NextRun]_vars

Ran == args.fn = "run" /\ result # None

\* the selection of a run and what the run has in hand
RunActive == is_comparison_active(args.w)
RunCols == breakdown_cols(args.w.analysis_menu)
HasVariance(row) == "revenue_rate" \in DOMAIN row

\* the three cases as the percentage of one pair of values; a finite
\* percentage over 0 would be NaN or a division error
ThreeCase(target, comparison, rate) ==
    /\ comparison # 0 =>
          rate = [kind |-> "fin", num |-> (target - comparison) * 100, den |-> comparison]
    /\ comparison = 0 /\ target = 0 => rate = PctZero
    /\ comparison = 0 /\ target # 0 => rate = PctInf
    /\ rate.kind = "fin" => rate.den # 0

\* C1: every row of the breakdown variance table, of the trend variance
\* table and of the cost-item table carries the three-case percentage of its
\* target and comparison values: (target - comparison) / comparison * 100 for
\* a non-zero comparison, 0 when both are 0, +infinity when only the
\* comparison is 0, and never NaN.
C1_ThreeCaseRows ==
    Ran =>
      /\ \A k \in 1..Len(result.df_display_raw) :
            LET r == result.df_display_raw[k]
                comp_revenue == GroupTotal(args.ledger, result.frames.df_comparison,
                                           RunCols, r.key, COL_REVENUE)
                comp_profit == GroupTotal(args.ledger, result.frames.df_comparison,
                                          RunCols, r.key, "operating_profit")
            IN HasVariance(r) =>
                 /\ r.revenue = GroupTotal(args.ledger, result.frames.df_target,
                                           RunCols, r.key, COL_REVENUE)
                 /\ r.operating_profit = GroupTotal(args.ledger, result.frames.df_target,
                                                    RunCols, r.key, "operating_profit")
                 /\ ThreeCase(r.revenue, comp_revenue, r.revenue_rate)
                 /\ ThreeCase(r.operating_profit, comp_profit, r.operating_profit_rate)
      /\ \A k \in 1..Len(result.df_trend_raw) :
            LET r == result.df_trend_raw[k]
            IN HasVariance(r) =>
                 /\ ThreeCase(r.revenue, r.revenue - r.revenue_delta, r.revenue_rate)
                 /\ ThreeCase(r.operating_profit,
                              r.operating_profit - r.operating_profit_delta,
                              r.operating_profit_rate)
      /\ \A k \in 1..Len(result.cost_df) :
            LET r == result.cost_df[k]
            IN /\ r.target = CostTotal(args.ledger, result.frames.df_target, r.cost_item)
               /\ r.comparison = CostTotal(args.ledger, result.frames.df_comparison,
                                           r.cost_item)
               /\ ThreeCase(r.target, r.comparison, r.rate)

\* a run with all three tables, where the breakdown and the trend each have
\* a row against a zero comparison and a row against a non-zero one, and the
\* cost items show a 0/0 row and a row against a non-zero comparison
C1_Witness ==
    /\ Ran /\ result.error = "none" /\ ~result.no_data
    /\ \E k \in 1..Len(result.df_display_raw) :
          /\ HasVariance(result.df_display_raw[k])
          /\ result.df_display_raw[k].revenue_rate = PctInf
    /\ \E k \in 1..Len(result.df_display_raw) :
          /\ HasVariance(result.df_display_raw[k])
          /\ result.df_display_raw[k].revenue_rate.kind = "fin"
          /\ result.df_display_raw[k].revenue_rate.num # 0
    /\ \E k \in 1..Len(result.df_trend_raw) :
          /\ HasVariance(result.df_trend_raw[k])
          /\ result.df_trend_raw[k].operating_profit_rate = PctInf
    /\ \E k \in 1..Len(result.df_trend_raw) :
          /\ HasVariance(result.df_trend_raw[k])
          /\ result.df_trend_raw[k].operating_profit_rate.kind = "fin"
          /\ result.df_trend_raw[k].operating_profit_rate.num # 0
    /\ \E k \in 1..Len(result.cost_df) :
          result.cost_df[k].comparison # 0 /\ result.cost_df[k].rate.num # 0
    /\ \E k \in 1..Len(result.cost_df) :
          result.cost_df[k].comparison = 0 /\ result.cost_df[k].rate = PctZero

\* the zero-comparison cases of the policy
ZeroCases(target, comparison, rate) ==
    /\ comparison = 0 /\ target # 0 => rate = PctInf
    /\ comparison = 0 /\ target = 0 => rate = PctZero
    /\ rate = PctZero => (target = comparison)

\* C2: the percentages of the headline totals (revenue, total cost,
\* operating profit), the revenue and profit rates of the insight generator
\* and the rates of the category rollup are +infinity whenever the comparison
\* value is 0 and the target value is not, and 0 against a zero comparison
\* only when both are 0.
C2_TotalsZeroPolicy ==
    Ran /\ ~result.no_data /\ result.totals.with_comparison =>
      LET t == result.totals
      IN /\ ZeroCases(t.total_revenue_target, t.total_revenue_comp, t.revenue_rate)
         /\ ZeroCases(t.total_cost_target, t.total_cost_comp, t.cost_rate)
         /\ ZeroCases(t.operating_profit_target, t.operating_profit_comp, t.profit_rate)
         /\ result.insights # None =>
              /\ ZeroCases(t.total_revenue_target, t.total_revenue_comp,
                           result.insights.revenue_rate)
              /\ ZeroCases(t.operating_profit_target, t.operating_profit_comp,
                           result.insights.profit_rate)
              /\ \A k \in 1..Len(result.insights.category_changes) :
                    LET c == result.insights.category_changes[k]
                    IN ZeroCases(c.target, c.comp, c.rate)

\* C3: a run with a comparison year selected, no comparison row and a
\* non-empty target completes without raising; its insights are those of
\* the no-comparison branch, and its breakdown table and grand total carry no
\* variance columns.
C3_EmptyComparisonCompletes ==
    Ran /\ RunActive /\ result.frames.df_comparison = {}
        /\ result.frames.df_target # {} =>
      /\ result.error = "none"
      /\ result.insights = [error |-> "none",
                            insights |-> NoComparisonInsights(args.ledger,
                                result.frames.df_target,
                                result.totals.total_revenue_target,
                                result.totals.operating_profit_target)]
      /\ \A k \in 1..Len(result.df_display_raw) : ~HasVariance(result.df_display_raw[k])
      /\ result.total_row_data =
            [error |-> "none",
             revenue |-> SumField(result.df_display_raw, "revenue"),
             operating_profit |-> SumField(result.df_display_raw, "operating_profit")]

\* C4: with a non-empty comparison the grand total of the breakdown table
\* has, for revenue and for operating profit, the sum of the rows' targets as
\* target and the sum of the rows' deltas as delta, and as percentage the
\* three-case percentage of (sum of targets) against (sum of targets - sum of
\* deltas).
C4_GrandTotalRow ==
    Ran /\ ~result.no_data /\ result.totals.with_comparison =>
      LET rows == result.df_display_raw
          g == result.total_row_data
          revenue == SumField(rows, "revenue")
          revenue_delta == SumField(rows, "revenue_delta")
          profit == SumField(rows, "operating_profit")
          profit_delta == SumField(rows, "operating_profit_delta")
      IN /\ g # None
         /\ g.error = "none"
         /\ g.revenue = revenue /\ g.revenue_delta = revenue_delta
         /\ g.operating_profit = profit /\ g.operating_profit_delta = profit_delta
         /\ ThreeCase(revenue, revenue - revenue_delta, g.revenue_rate)
         /\ ThreeCase(profit, profit - profit_delta, g.operating_profit_rate)

-----------------------------------------------------------------------------
(* The breakdown table over a target and a comparison selection *)

MaxJoinRows == 3

\* period, campus, revenue, manager_A cost of the sheet rows drawn from
JoinRowTypes ==
    << <<202301, S_A, 1000, 600>>, <<202301, S_x, 700, 100>>,
       <<202401, S_A, 1000, 600>>, <<202401, S_B, 3000, 600>>,
       <<202402, S_B, 700, 900>>, <<202402, S_x, 0, 0>> >>

JoinSheets ==
    {[i \in 1..Len(ts) |-> RunRawRow(JoinRowTypes[ts[i]])] :
        ts \in {q \in SeqsUpTo(1..Len(JoinRowTypes), MaxJoinRows) :
                   \A i \in 1..(Len(q) - 1) : q[i] <= q[i + 1]}}

JoinSelections(ledger) ==
    {[analysis_menu |-> m,
      selected_years |-> ys,
      selected_display_months |-> ms,
      selected_filter_values |-> [c \in MenuFilterColumns(m) |-> {}],
      comparison_year |-> cy,
      comparison_selected_display_months |-> cm] :
        m \in {"campus", "brand"},
        ys \in (SUBSET all_years(ledger)) \ {{}},
        ms \in (SUBSET display_months(ledger)) \ {{}},
        cy \in all_years(ledger),
        cm \in (SUBSET display_months(ledger)) \ {{}}}

InitJoin ==
    /\ \E rows \in JoinSheets :
         LET ledger == load_data(RawFile(AllRawCols, rows))
         IN \E wd \in JoinSelections(ledger) :
               args = [fn |-> "breakdown", ledger |-> ledger, w |-> wd]
    /\ result = None
    /\ page = "upload" /\ uploaded_file = None /\ cache = <<>>
    /\ df = None /\ w = None /\ view = None

\* lines 924-967 and 1182-1200: the selections and, for a non-empty target,
\* the breakdown table
CallJoin ==
    /\ args.fn = "breakdown"
    /\ result = None
    /\ LET current_df == FilterTarget(args.ledger, args.w)
           df_comparison == FilterComparison(args.ledger, args.w)
           with_comparison == is_comparison_active(args.w) /\ df_comparison # {}
       IN result' = [df_target |-> current_df,
                     df_comparison |-> df_comparison,
                     with_comparison |-> with_comparison,
                     df_display_raw |->
                        IF current_df = {} THEN NoTable
                        ELSE BreakdownTable(args.ledger, current_df, df_comparison,
                                 breakdown_cols(args.w.analysis_menu), with_comparison)]
    /\ UNCHANGED <<args, session>>

NextJoin == CallJoin

SpecJoin == InitJoin /\ [][NextJoin]_vars

Joined == args.fn = "breakdown" /\ result # None /\ result.df_target # {}
                                /\ result.with_comparison

JoinCols == breakdown_cols(args.w.analysis_menu)
JoinKeys(frame) == {KeyOf(args.ledger, i, JoinCols) : i \in frame}
JoinGroup(frame, key) == {i \in frame : KeyOf(args.ledger, i, JoinCols) = key}

\* C12: every dimension tuple of the target or of the comparison selection
\* is the key of exactly one row of the breakdown variance table; the row
\* carries the target sums and target - comparison sums of the tuple, with 0
\* for the side that does not have the tuple (delta = target for a tuple of
\* the target only, target = 0 and delta = -comparison for a tuple of the
\* comparison only).
C12_OuterJoinRows ==
    Joined =>
      LET rows == result.df_display_raw
          tkeys == JoinKeys(result.df_target)
          ckeys == JoinKeys(result.df_comparison)
      IN /\ {rows[k].key : k \in 1..Len(rows)} = tkeys \cup ckeys
         /\ Len(rows) = Cardinality(tkeys \cup ckeys)
         /\ \A k \in 1..Len(rows) :
               LET r == rows[k]
                   t == JoinGroup(result.df_target, r.key)
                   c == JoinGroup(result.df_comparison, r.key)
               IN /\ r.revenue = SumCol(args.ledger, t, COL_REVENUE)
                  /\ r.operating_profit = SumCol(args.ledger, t, "operating_profit")
                  /\ r.revenue_delta = r.revenue - SumCol(args.ledger, c, COL_REVENUE)
                  /\ r.operating_profit_delta
                        = r.operating_profit - SumCol(args.ledger, c, "operating_profit")
                  /\ r.key \notin ckeys =>
                        /\ r.revenue_delta = r.revenue
                        /\ r.operating_profit_delta = r.operating_profit
                  /\ r.key \notin tkeys =>
                        /\ r.revenue = 0 /\ r.operating_profit = 0
                        /\ r.revenue_delta = -SumCol(args.ledger, c, COL_REVENUE)

\* a table of three rows: a tuple of both selections, a tuple of the target
\* only and a tuple of the comparison only, each with non-zero amounts
C12_Witness ==
    /\ Joined
    /\ Len(result.df_display_raw) = 3
    /\ \E k \in 1..3 :
          /\ result.df_display_raw[k].key \in JoinKeys(result.df_target)
          /\ result.df_display_raw[k].key \in JoinKeys(result.df_comparison)
          /\ result.df_display_raw[k].revenue # 0
    /\ \E k \in 1..3 :
          /\ result.df_display_raw[k].key \notin JoinKeys(result.df_comparison)
          /\ result.df_display_raw[k].revenue_delta # 0
    /\ \E k \in 1..3 :
          /\ result.df_display_raw[k].key \notin JoinKeys(result.df_target)
          /\ result.df_display_raw[k].revenue_delta < 0

-----------------------------------------------------------------------------
(* generate_ai_insights over a target and a comparison period *)

MaxVariedCosts == 5

\* the cost columns that vary, each with the <<comparison, target>> amounts
\* it is drawn from
VariedCosts ==
    << [col |-> "manager_A",
        amounts |-> {<<0, 0>>, <<2000000, 3000000>>, <<2000000, 2140000>>}],
       [col |-> "manager_B",
        amounts |-> {<<0, 0>>, <<2000000, 2800000>>, <<1000000, 3000000>>}],
       [col |-> "rent_A",
        amounts |-> {<<0, 0>>, <<2000000, 2600000>>, <<2000000, 2400000>>}],
       [col |-> "rent_B",
        amounts |-> {<<0, 0>>, <<4000000, 5000000>>, <<2000000, 1000000>>}],
       [col |-> "cleaning_A",
        amounts |-> {<<0, 0>>, <<3000000, 1000000>>, <<0, 500000>>}],
       [col |-> "marketing_campus",
        amounts |-> {<<0, 0>>, <<5000000, 4000000>>}] >>

\* <<comparison, target>> revenue
InsightRevenues ==
    { <<10000000, 10700000>>, <<10000000, 10500000>>, <<10000000, 11000000>>,
      <<10000000, 9000000>>, <<0, 8000000>> }

InsightVaried == 1..Min2(MaxVariedCosts, Len(VariedCosts))

\* the sheet row of one period: side 1 is the comparison, side 2 the target
InsightRawRow(period, revenue, costs, side) ==
    [c \in AllRawCols |->
       CASE c = COL_PERIOD -> NumCell(period)
         [] c = COL_REVENUE -> NumCell(revenue[side])
         [] c \in FilterSet -> StrCell(S_A)
         [] \E k \in InsightVaried : VariedCosts[k].col = c ->
               NumCell(costs[CHOOSE k \in InsightVaried : VariedCosts[k].col = c][side])
         [] OTHER -> NumCell(0)]

\* the selection: the target year 2024, all months, and 2023 or no year as
\* the comparison year
InsightSelection(ledger, comparison_year) ==
    [analysis_menu |-> "campus",
     selected_years |-> {Str(<<2, 0, 2, 4>>)},
     selected_display_months |-> display_months(ledger),
     selected_filter_values |-> [c \in MenuFilterColumns("campus") |-> {}],
     comparison_year |-> comparison_year,
     comparison_selected_display_months |-> display_months(ledger)]

InitInsight ==
    /\ \E revenue \in InsightRevenues,
          costs \in [InsightVaried -> UNION {VariedCosts[k].amounts : k \in InsightVaried}],
          comparison_year \in {NOT_SELECTED, Str(<<2, 0, 2, 3>>)} :
         /\ \A k \in InsightVaried : costs[k] \in VariedCosts[k].amounts
         /\ LET ledger == load_data(RawFile(AllRawCols,
                              <<InsightRawRow(202301, revenue, costs, 1),
                                InsightRawRow(202401, revenue, costs, 2)>>))
            IN args = [fn |-> "generate_ai_insights", ledger |-> ledger,
                       w |-> InsightSelection(ledger, comparison_year)]
    /\ result = None
    /\ page = "upload" /\ uploaded_file = None /\ cache = <<>>
    /\ df = None /\ w = None /\ view = None

\* lines 1011-1043 and 1146-1157: the totals and the call of the generator
CallInsight ==
    /\ args.fn = "generate_ai_insights"
    /\ result = None
    /\ LET current_df == FilterTarget(args.ledger, args.w)
           df_comparison == FilterComparison(args.ledger, args.w)
           with_comparison == is_comparison_active(args.w) /\ df_comparison # {}
           totals == HeadlineTotals(args.ledger, current_df, df_comparison, with_comparison)
       IN result' = [df_target |-> current_df,
                     df_comparison |-> df_comparison,
                     with_comparison |-> with_comparison,
                     totals |-> totals,
                     ai |-> generate_ai_insights(args.ledger, current_df, df_comparison,
                               with_comparison, COST_COLUMNS, COST_CATEGORIES,
                               totals.total_revenue_target, totals.total_revenue_comp,
                               totals.operating_profit_target, totals.operating_profit_comp)]
    /\ UNCHANGED <<args, session>>

NextInsight == CallInsight

SpecInsight == InitInsight /\ [][NextInsight]_vars

Insighted == args.fn = "generate_ai_insights" /\ result # None
Compared == Insighted /\ result.with_comparison /\ result.ai.error = "none"

\* percentage p is above, or below, the number t
Above(p, t) ==
    \/ p.kind = "inf"
    \/ p.kind = "fin" /\ p.den > 0 /\ p.num > t * p.den
    \/ p.kind = "fin" /\ p.den < 0 /\ p.num < t * p.den
Below(p, t) ==
    \/ p.kind = "fin" /\ p.den > 0 /\ p.num < t * p.den
    \/ p.kind = "fin" /\ p.den < 0 /\ p.num > t * p.den

\* the positions of the insights of a list that carry one of the titles
Titled(ins, titles) == {k \in 1..Len(ins) : ins[k].title \in titles}
RevenueTitles == {"revenue_growth", "revenue_decline", "revenue_flat"}
ProfitTitles == {"profit_improved", "profit_worsened"}

\* C13: with a non-empty comparison the list has exactly one revenue
\* insight, positive iff the revenue rate is above 5, negative iff it is
\* below -5 and neutral otherwise, and at most one profit insight, positive
\* iff the profit rate is above 10, negative iff it is below -10 and absent
\* from -10 to 10; the rates are those of the totals over a non-zero
\* comparison total.
C13_RevenueAndProfitRules ==
    Compared =>
      LET ins == result.ai.insights
          t == result.totals
          rr == result.ai.revenue_rate
          pr == result.ai.profit_rate
          rev == Titled(ins, RevenueTitles)
          prof == Titled(ins, ProfitTitles)
      IN /\ t.total_revenue_comp # 0 =>
               rr = PctOf(t.total_revenue_target - t.total_revenue_comp,
                          t.total_revenue_comp)
         /\ t.operating_profit_comp # 0 =>
               pr = PctOf(t.operating_profit_target - t.operating_profit_comp,
                          t.operating_profit_comp)
         /\ Cardinality(rev) = 1
         /\ \A k \in rev :
               /\ ins[k].type = "positive" <=> Above(rr, 5)
               /\ ins[k].type = "negative" <=> Below(rr, -5)
               /\ ins[k].type = "neutral" <=> ~Above(rr, 5) /\ ~Below(rr, -5)
         /\ Cardinality(prof) <= 1
         /\ (\E k \in prof : ins[k].type = "positive") <=> Above(pr, 10)
         /\ (\E k \in prof : ins[k].type = "negative") <=> Below(pr, -10)
         /\ \A k \in prof : ins[k].type \in {"positive", "negative"}

\* revenue and operating profit both grew by 7 percent: a positive revenue
\* insight and no profit insight
C13_Witness ==
    /\ Compared
    /\ result.ai.revenue_rate.kind = "fin"
    /\ result.ai.revenue_rate.num = 7 * result.ai.revenue_rate.den
    /\ result.ai.profit_rate.kind = "fin"
    /\ result.ai.profit_rate.num = 7 * result.ai.profit_rate.den
    /\ result.totals.operating_profit_comp # result.totals.total_revenue_comp
    /\ \E k \in Titled(result.ai.insights, RevenueTitles) :
          result.ai.insights[k].type = "positive"
    /\ Titled(result.ai.insights, ProfitTitles) = {}

\* C14: without a comparison period every non-empty target selection gets
\* exactly two insights: first the neutral summary of revenue and profit,
\* then the profit-margin insight, positive iff operating profit / revenue
\* * 100 is above 10 and negative otherwise.
C14_TwoInsightsWithoutComparison ==
    Insighted /\ ~result.with_comparison /\ result.df_target # {} =>
      LET ins == result.ai.insights
          t == result.totals
      IN /\ result.ai.error = "none"
         /\ Len(ins) = 2
         /\ ins[1].type = "neutral" /\ ins[1].title = "current_period"
         /\ ins[2].title = "profit_margin"
         /\ ins[2].type \in {"positive", "negative"}
         /\ ins[2].type = "positive" <=>
               /\ t.total_revenue_target # 0
               /\ Above(PctOf(t.operating_profit_target, t.total_revenue_target), 10)

\* target sum - comparison sum over the fields of the j-th category
CategoryDelta(j) ==
    SumCategory(args.ledger, result.df_target, COST_CATEGORIES[j].cols)
    - SumCategory(args.ledger, result.df_comparison, COST_CATEGORIES[j].cols)

\* C15: with a non-empty comparison a negative cost-increase insight exists
\* iff the greatest category delta is above 0, and it names a category with
\* that delta; a positive cost-reduction insight exists iff the least
\* category delta is below 0, and it names a category with that delta; there
\* is at most one of each.
C15_CategoryExtremes ==
    Compared =>
      LET ins == result.ai.insights
          cats == 1..Len(COST_CATEGORIES)
          inc == Titled(ins, {"cost_increase"})
          dec == Titled(ins, {"cost_reduction"})
          IsMax(j) == \A i \in cats : CategoryDelta(i) <= CategoryDelta(j)
          IsMin(j) == \A i \in cats : CategoryDelta(i) >= CategoryDelta(j)
      IN /\ Cardinality(inc) <= 1 /\ Cardinality(dec) <= 1
         /\ inc # {} <=> \E j \in cats : CategoryDelta(j) > 0
         /\ dec # {} <=> \E j \in cats : CategoryDelta(j) < 0
         /\ \A k \in inc :
               /\ ins[k].type = "negative"
               /\ \E j \in cats : /\ IsMax(j)
                                  /\ COST_CATEGORIES[j].category = ins[k].subject
         /\ \A k \in dec :
               /\ ins[k].type = "positive"
               /\ \E j \in cats : /\ IsMin(j)
                                  /\ COST_CATEGORIES[j].category = ins[k].subject

\* three categories moved by different amounts: the increase names the
\* rent category, which is not the first of the list, and the reduction names
\* the cleaning category
C15_Witness ==
    /\ Compared
    /\ CategoryDelta(1) > 0
    /\ CategoryDelta(4) > CategoryDelta(1)
    /\ CategoryDelta(5) < 0
    /\ \E k \in Titled(result.ai.insights, {"cost_increase"}) :
          result.ai.insights[k].subject = "rent_mgmt"
    /\ \E k \in Titled(result.ai.insights, {"cost_reduction"}) :
          result.ai.insights[k].subject = "cleaning"

\* the sums of a cost item over the two periods
ItemTarget(c) == SumCost(args.ledger, result.df_target, c)
ItemComp(c) == SumCost(args.ledger, result.df_comparison, c)

\* the items over the materiality floor that grew by more than 20 percent
SurgedItems ==
    {c \in CostSet : /\ ItemComp(c) > 1000000
                     /\ (ItemTarget(c) - ItemComp(c)) * 100 > 20 * ItemComp(c)}

\* C16: the cost-item insights are negative insights on distinct items whose
\* comparison sum is above 1,000,000 and whose percentage delta is above 20;
\* there are as many as such items, but at most 3, and no item left out grew
\* by a greater percentage than an item that has its insight.
C16_TopThreeItems ==
    Compared =>
      LET ins == result.ai.insights
          items == Titled(ins, {"item_surge"})
          named == {ins[k].subject : k \in items}
      IN /\ named \subseteq SurgedItems
         /\ Cardinality(named) = Cardinality(items)
         /\ Cardinality(items) = Min2(3, Cardinality(SurgedItems))
         /\ \A k \in items : ins[k].type = "negative"
         /\ \A e \in named : \A c \in SurgedItems \ named :
               ~RatLess(ItemTarget(e) - ItemComp(e), ItemComp(e),
                        ItemTarget(c) - ItemComp(c), ItemComp(c))

\* four items over the floor grew by more than 20 percent: three insights,
\* and the item that grew least has none
C16_Witness ==
    /\ Compared
    /\ Cardinality(SurgedItems) = 4
    /\ {result.ai.insights[k].subject : k \in Titled(result.ai.insights, {"item_surge"})}
          = {"manager_A", "manager_B", "rent_A"}
    /\ "rent_B" \in SurgedItems

\* the place of an insight's rule in the rule order
RuleRank(insight) ==
    CASE insight.title \in RevenueTitles -> 1
      [] insight.title \in ProfitTitles -> 2
      [] insight.title = "cost_increase" -> 3
      [] insight.title = "cost_reduction" -> 4
      [] insight.title = "item_surge" -> 5
      [] OTHER -> 0

\* C17: an insight list produced with a comparison is in rule order: the
\* revenue insight, then the profit insight, the cost-increase insight and
\* the cost-reduction insight where they exist, then the cost-item insights
\* in descending order of percentage; it has 1 to 7 entries.
C17_RuleOrder ==
    Compared =>
      LET ins == result.ai.insights
      IN /\ 1 <= Len(ins) /\ Len(ins) <= 7
         /\ RuleRank(ins[1]) = 1
         /\ \A k \in 1..Len(ins) : RuleRank(ins[k]) # 0
         /\ \A i, j \in 1..Len(ins) :
               i < j =>
                 /\ RuleRank(ins[i]) <= RuleRank(ins[j])
                 /\ RuleRank(ins[i]) < 5 => RuleRank(ins[i]) < RuleRank(ins[j])
                 /\ RuleRank(ins[i]) = 5 =>
                       ~RatLess(ins[i].rate.num, ins[i].rate.den,
                                ins[j].rate.num, ins[j].rate.den)

\* a list of seven insights: all four single rules fired and three items
\* with different percentages follow
C17_Witness ==
    /\ Compared
    /\ Len(result.ai.insights) = 7
    /\ RatLess(result.ai.insights[7].rate.num, result.ai.insights[7].rate.den,
               result.ai.insights[6].rate.num, result.ai.insights[6].rate.den)
    /\ RatLess(result.ai.insights[6].rate.num, result.ai.insights[6].rate.den,
               result.ai.insights[5].rate.num, result.ai.insights[5].rate.den)

-----------------------------------------------------------------------------
(* The session: the upload page, the analysis page and reset_app           *)
(* (lines 612-625 and 737-785).  A step is one run of the script.  result  *)
(* keeps the last event and the events so far.                             *)

MaxSessionRows == 2

\* the sheets a user uploads, and the same sheets without the revenue column
SessionRowTypes ==
    << <<202301, S_A, 1000, 600>>, <<202401, S_A, 1000, 600>>, <<202401, S_B, 3000, 600>> >>

SessionSheets ==
    {[i \in 1..Len(ts) |-> RunRawRow(SessionRowTypes[ts[i]])] :
        ts \in {q \in SeqsUpTo(1..Len(SessionRowTypes), MaxSessionRows) :
                   \A i \in 1..(Len(q) - 1) : q[i] <= q[i + 1]}}

SessionFiles ==
    {RawFile(AllRawCols, rows) : rows \in SessionSheets}
    \cup {RawFile(AllRawCols \ {COL_REVENUE}, rows) : rows \in SessionSheets}

\* the widget values of an analysis run
SessionSelections(ledger) ==
    {[analysis_menu |-> "campus",
      selected_years |-> all_years(ledger),
      selected_display_months |-> display_months(ledger),
      selected_filter_values |-> [c \in MenuFilterColumns("campus") |-> {}],
      time_agg_type |-> t,
      is_cumulative |-> FALSE,
      comparison_year |-> cy,
      comparison_selected_display_months |-> display_months(ledger)] :
        t \in {"monthly", "quarterly"},
        cy \in {NOT_SELECTED} \cup all_years(ledger)}

\* st.cache_data around load_data (line 315): the entries are kept by file
CacheHit(c, file) == \E k \in 1..Len(c) : c[k].file = file
CachedLoad(c, file) ==
    IF CacheHit(c, file) THEN c[CHOOSE k \in 1..Len(c) : c[k].file = file].value
    ELSE load_data(file)
CacheStore(c, file) ==
    IF CacheHit(c, file) THEN c ELSE Append(c, [file |-> file, value |-> load_data(file)])

Logged(event) ==
    /\ result' = [last |-> event, seen |-> result.seen \cup {event}]
    /\ UNCHANGED args

\* (mutant) the cache survives the reset
reset_app_KeepsCache ==
    /\ uploaded_file' = None
    /\ page' = "upload"
    /\ cache' = CacheStore(cache, uploaded_file)
    /\ df' = None /\ w' = None /\ view' = None

\* reset_app, lines 621-625; the rerun starts the script with no ledger, no
\* widget value and no output
reset_app ==
    /\ uploaded_file' = None
    /\ page' = "upload"
    /\ cache' = <<>>
    /\ df' = None /\ w' = None /\ view' = None

InitSession ==
    /\ page = "upload" /\ uploaded_file = None /\ cache = <<>>
    /\ df = None /\ w = None /\ view = None
    /\ args = [fn |-> "session"]
    /\ result = [last |-> "init", seen |-> {}]

\* lines 737-759: a file arrives on the upload page
Upload ==
    /\ args.fn = "session"
    /\ page = "upload"
    /\ \E file \in SessionFiles : uploaded_file' = file
    /\ page' = "analysis"
    /\ UNCHANGED <<cache, df, w, view>>
    /\ Logged("upload")

\* lines 764-774: the analysis page finds that the file does not load
LoadFails ==
    /\ args.fn = "session"
    /\ page = "analysis"
    /\ ~CachedLoad(cache, uploaded_file).ok
    /\ reset_app
    /\ Logged("load_failed")

\* lines 764-782: the file loads and the user has pressed the home button
UserReset ==
    /\ args.fn = "session"
    /\ page = "analysis"
    /\ CachedLoad(cache, uploaded_file).ok
    /\ reset_app
    /\ Logged("reset")

\* (mutant) the in-place column drop of line 393 reaching the ledger itself
LedgerAfterRun_DropsInPlace(ledger, wd) ==
    LET kept == ledger.columns \ {"sort_key", TimeCol(wd.time_agg_type)}
    IN [ledger EXCEPT !.columns = kept,
                      !.rows = [i \in DOMAIN @ |-> Restrict(@[i], kept)]]

\* the ledger df as a page run leaves it: the filters slice it into copies
\* (lines 927-984), the aggregator and the tables build new frames, and the
\* in-place drops and renames (lines 388-393, 1431-1460) act on those
LedgerAfterRun(ledger, wd) == ledger

\* lines 764-1482: the file loads and the page is rendered for the widget
\* values wd
Render ==
    /\ args.fn = "session"
    /\ page = "analysis"
    /\ CachedLoad(cache, uploaded_file).ok
    /\ LET ledger == CachedLoad(cache, uploaded_file)
       IN /\ cache' = CacheStore(cache, uploaded_file)
          /\ \E wd \in SessionSelections(ledger) :
                /\ w' = wd
                /\ view' = RunAnalysis(ledger, wd)
                /\ df' = LedgerAfterRun(ledger, wd)
    /\ UNCHANGED <<page, uploaded_file>>
    /\ Logged("render")

NextSession == Upload \/ LoadFails \/ UserReset \/ Render

\* the rerun that follows an upload is not up to the user
SpecSession == InitSession /\ [][NextSession]_vars /\ WF_vars(LoadFails)

InSession == args.fn = "session"
Initial == page = "upload" /\ uploaded_file = None /\ cache = <<>>
FileFails == page = "analysis" /\ ~load_data(uploaded_file).ok

\* C18: on the analysis page an uploaded file is held; a step that leaves
\* the analysis page (the user's reset), and every step of an analysis run
\* whose file fails to load, ends on the upload page with no uploaded file
\* and an empty cache; and a file that fails to load does lead there.
C18_ResetToInitial ==
    /\ [](InSession /\ page = "analysis" => uploaded_file # None)
    /\ [][InSession /\ page = "analysis" /\ page' # "analysis" => Initial']_vars
    /\ [][InSession /\ FileFails => Initial']_vars
    /\ (InSession /\ FileFails) ~> Initial

\* back at the start after the user's reset, in a session that has also
\* seen a load fail and a page rendered
C18_Witness ==
    /\ InSession /\ Initial
    /\ result.last = "reset"
    /\ {"load_failed", "render", "upload"} \subseteq result.seen
    /\ df = None

\* the text the claim gives a rate of a target value against a comparison
\* value
RateTextOf(target, comparison, rate) ==
    IF comparison = 0 /\ target = 0 THEN [text |-> "N/A"]
    ELSE IF comparison = 0 THEN [text |-> "Inf %"]
    ELSE [text |-> "number %", number |-> rate]

\* C19: in the displayed breakdown table, its grand-total row, the trend
\* table and the cost-item table a rate of the case comparison = 0 and
\* target = 0 reads 'N/A', an infinite rate reads 'Inf %', and any other
\* rate reads as its number.
C19_RateTexts ==
    Ran /\ result.error = "none" /\ ~result.no_data =>
      /\ \A k \in 1..Len(result.cost_df) :
            LET r == result.cost_df[k]
            IN result.cost_display[k].rate = RateTextOf(r.target, r.comparison, r.rate)
      /\ \A k \in 1..Len(result.df_trend_raw) :
            LET r == result.df_trend_raw[k]
            IN HasVariance(r) =>
                 /\ result.df_trend_display[k].revenue_rate
                       = RateTextOf(r.revenue, r.revenue - r.revenue_delta, r.revenue_rate)
                 /\ result.df_trend_display[k].operating_profit_rate
                       = RateTextOf(r.operating_profit,
                                    r.operating_profit - r.operating_profit_delta,
                                    r.operating_profit_rate)
      /\ \A k \in 1..Len(result.df_display) :
            LET r == IF k <= Len(result.df_display_raw)
                       THEN result.df_display_raw[k] ELSE result.total_row_data
            IN HasVariance(r) =>
                 /\ result.df_display[k].revenue_rate
                       = RateTextOf(r.revenue, r.revenue - r.revenue_delta, r.revenue_rate)
                 /\ result.df_display[k].operating_profit_rate
                       = RateTextOf(r.operating_profit,
                                    r.operating_profit - r.operating_profit_delta,
                                    r.operating_profit_rate)

-----------------------------------------------------------------------------
(* The display unit: formatted amounts and the exported tables             *)
(* (lines 69-80, 876-892, 1217-1226, 1253, 1482, 1497-1511)                *)

\* unit_options, divisor and unit suffix
unit_options ==
    << [divisor |-> 1, unit |-> "won"],
       [divisor |-> 1000, unit |-> "thousand won"],
       [divisor |-> 1000000, unit |-> "million won"],
       [divisor |-> 10000000, unit |-> "ten million won"],
       [divisor |-> 100000000, unit |-> "hundred million won"] >>

Abs(n) == IF n < 0 THEN -n ELSE n

\* n / d to the nearest integer for n >= 0, the even one of two nearest
RoundHalfEven(n, d) ==
    LET q == n \div d
        r == n % d
    IN IF 2 * r < d THEN q
       ELSE IF 2 * r > d THEN q + 1
       ELSE IF q % 2 = 0 THEN q ELSE q + 1

\* format_currency(value, unit_str, divisor) for a number: the integer with
\* the unit for divisor 1, else value / divisor to one decimal with the unit
format_currency(value, unit) ==
    IF unit.divisor = 1
      THEN [unit |-> unit.unit, text |-> "integer", negative |-> value < 0,
            digits |-> Abs(value)]
      ELSE [unit |-> unit.unit, text |-> "one decimal", negative |-> value < 0,
            digits |-> RoundHalfEven(Abs(value) * 10, unit.divisor)]

\* the amount columns of df_display (lines 1219-1226)
CurrencyDisplay(df_display_raw, unit) ==
    [k \in 1..Len(df_display_raw) |->
        [revenue |-> format_currency(df_display_raw[k].revenue, unit),
         operating_profit |-> format_currency(df_display_raw[k].operating_profit, unit)]]

\* the amounts quoted in the insight texts (lines 467, 473, 522, 529, 552)
InsightAmounts(ai, totals, unit) ==
    IF "revenue_rate" \in DOMAIN ai
      THEN [revenue_diff |-> format_currency(Abs(totals.delta_revenue), unit),
            top_increase |-> format_currency(TopIncrease(ai.category_changes).diff, unit),
            top_decrease |-> format_currency(Abs(TopDecrease(ai.category_changes).diff), unit)]
      ELSE [revenue |-> format_currency(totals.total_revenue_target, unit),
            operating_profit |-> format_currency(totals.operating_profit_target, unit)]

\* (mutant) the displayed table is exported
ExportTable_Displayed(raw, displayed) == displayed

\* df_summary_for_export = df_display_raw.copy() (line 1253): the table
\* before formatting
ExportTable(raw, displayed) == raw

\* what a run of the page shows and exports under a display unit; run is
\* the outcome of the sections of the page
PageOutputs(run, unit) ==
    [error |-> run.error,
     no_data |-> run.no_data,
     insights |-> IF run.insights = None THEN NoTable ELSE run.insights.insights,
     insight_amounts |-> IF run.insights = None \/ run.error # "none" THEN None
                         ELSE InsightAmounts(run.insights, run.totals, unit),
     df_display |-> CurrencyDisplay(run.df_display_raw, unit),
     df_summary_for_export |->
         ExportTable(run.df_display_raw, CurrencyDisplay(run.df_display_raw, unit)),
     df_trend_for_export |-> run.df_trend_raw,
     cost_df_for_export |-> run.cost_df]

InitExport ==
    /\ \E rows \in RunSheets :
         LET ledger == load_data(RawFile(AllRawCols, rows))
         IN \E wd \in SessionSelections(ledger) :
               args = [fn |-> "export", ledger |-> ledger, w |-> wd]
    /\ result = None
    /\ page = "upload" /\ uploaded_file = None /\ cache = <<>>
    /\ df = None /\ w = None /\ view = None

\* the page run once under each display unit, the ledger and the other
\* widget values being the same
CallExport ==
    /\ args.fn = "export"
    /\ result = None
    /\ LET run == RunAnalysis(args.ledger, args.w)
       IN result' = [by_unit |-> [u \in 1..Len(unit_options) |->
                                     PageOutputs(run, unit_options[u])]]
    /\ UNCHANGED <<args, session>>

NextExport == CallExport

SpecExport == InitExport /\ [][NextExport]_vars

Exported == args.fn = "export" /\ result # None

\* type, title and subject of the insights of a list, in order
InsightKinds(ins) ==
    [k \in 1..Len(ins) |-> [type |-> ins[k].type, title |-> ins[k].title,
                            subject |-> ins[k].subject]]

-----------------------------------------------------------------------------
(* The cost schema: COST_COLUMNS and COST_CATEGORIES (lines 44-66)         *)

\* the number of categories that list a cost column, with repetitions
Memberships(col) ==
    SumOver([k \in 1..Len(COST_CATEGORIES) |->
               Len(SelectSeq(COST_CATEGORIES[k].cols, LAMBDA c : c = col))],
            [k \in 1..Len(COST_CATEGORIES) |-> k])

\* the categories split the cost columns: each column is listed once, in
\* one category, and the categories list nothing else
CategoriesPartition ==
    /\ Cardinality(CostSet) = Len(COST_COLUMNS)
    /\ Len(COST_CATEGORIES) = 9
    /\ \A c \in CostSet : Memberships(c) = 1
    /\ \A k \in 1..Len(COST_CATEGORIES) : Range(COST_CATEGORIES[k].cols) \subseteq CostSet

\* the category sums of a ledger loaded with every cost column add up to
\* its total cost
CategorySumsConserve ==
    (Loaded /\ result.all_costs_present) =>
       SumOver([k \in 1..Len(COST_CATEGORIES) |->
                  SumCategory(result, Index(result), COST_CATEGORIES[k].cols)],
               [k \in 1..Len(COST_CATEGORIES) |-> k])
         = SumCol(result, Index(result), "total_cost")

\* C21 (as stated): the cost-field list has exactly 44 fields, the 9
\* categories partition it, and in a ledger loaded with every cost column
\* the 9 category sums add up to the total cost.
C21_FortyFourFields ==
    /\ Len(COST_COLUMNS) = 44
    /\ CategoriesPartition
    /\ CategorySumsConserve

\* C21 (amended): the cost-field list has exactly 48 fields, the 9
\* categories partition it, and in a ledger loaded with every cost column
\* the 9 category sums add up to the total cost.
C21_FortyEightFields ==
    /\ Len(COST_COLUMNS) = 48
    /\ CategoriesPartition
    /\ CategorySumsConserve

\* a ledger loaded with every cost column whose rows carry costs in three
\* categories, one of them among the last four names of the list
C21_Witness ==
    /\ Loaded /\ result.all_costs_present
    /\ \E i \in Index(result) :
          /\ result.rows[i]["manager_A"] = NumCell(600)
          /\ result.rows[i]["rent_A"] = NumCell(100)
          /\ result.rows[i]["misc2_campus"] = NumCell(50)
          /\ result.rows[i]["total_cost"] = 750

-----------------------------------------------------------------------------
(* Quarter derivation: get_quarter (lines 83-89) applied by load_data       *)
(* (lines 326-331)                                                          *)

QuarterTokens == <<S_Q1, S_Q2, S_Q3, S_Q4>>

\* the quarter the range mapping gives a month text: Q1..Q4 for the months
\* 1..12, the N/A sentinel for every other text
QuarterOfMonth(month_str) ==
    IF IntParses(month_str) /\ ValueOf(month_str) \in 1..12
      THEN QuarterTokens[((ValueOf(month_str) - 1) \div 3) + 1]
      ELSE S_NA

\* the period key texts of the uploaded sheet, as load_data reads them
PeriodTexts(file) == astype_str([i \in 1..Len(file.rows) |-> file.rows[i][COL_PERIOD]])

\* C22: months 1-3 give Q1, 4-6 Q2, 7-9 Q3, 10-12 Q4 and every other month
\* text taken from the period key ('00', '13', an empty month) gives the
\* N/A sentinel rather than a failure: a sheet with the required columns
\* whose period keys read as integers loads, and every row of a loaded
\* ledger has the quarter of its month, one of Q1, Q2, Q3, Q4, N/A.
C22_QuarterOrSentinel ==
    /\ Loaded =>
         \A i \in Index(result) :
            /\ result.rows[i]["quarter"] = QuarterOfMonth(result.rows[i]["month"])
            /\ result.rows[i]["quarter"] \in Range(QuarterTokens) \cup {S_NA}
    /\ ( /\ args.fn = "load_data" /\ result # None
         /\ RequiredColumns \subseteq args.file.cols
         /\ \A i \in 1..Len(args.file.rows) : IntParses(PeriodTexts(args.file)[i]) )
       => result.ok

\* C23: in every loaded ledger each row's period key is a text of exactly
\* 6 digits, year its first 4 characters and month its last 2; a sheet with
\* a period key of another length or with a non-digit character gives no
\* ledger rows.
C23_SixDigitPeriodKey ==
    Loaded =>
      \A i \in Index(result) :
         LET key == result.rows[i][COL_PERIOD] IN
         /\ Len(key) = 6
         /\ \A j \in 1..Len(key) : IsDigit(key[j])
         /\ result.rows[i]["year"] = SubSeq(key, 1, 4)
         /\ result.rows[i]["month"] = SubSeq(key, Len(key) - 1, Len(key))

-----------------------------------------------------------------------------
(* Frame effect of the page run on the ledger                               *)

-----------------------------------------------------------------------------
(* Conservation between the breakdown table and the headline totals         *)

\* C25: for every non-empty target selection the revenue and the operating
\* profit summed over the breakdown rows equal the headline target totals,
\* and with a non-empty comparison the grand-total row's implied comparison
\* values (target - delta) equal the headline comparison totals.
C25_BreakdownConservesTotals ==
    (Ran /\ ~result.no_data) =>
      LET rows == result.df_display_raw
          g == result.total_row_data
          totals == result.totals
      IN /\ rows # NoTable
         /\ SumField(rows, "revenue") = totals.total_revenue_target
         /\ SumField(rows, "operating_profit") = totals.operating_profit_target
         /\ totals.with_comparison =>
               /\ g # None
               /\ g.revenue - g.revenue_delta = totals.total_revenue_comp
               /\ g.operating_profit - g.operating_profit_delta
                     = totals.operating_profit_comp

-----------------------------------------------------------------------------
(* Direction of the profit insight                                          *)

\* C26: a positive 'profitability improved' insight is in the list only
\* when the target operating profit is greater than the comparison
\* operating profit, and a negative 'profitability worsened' insight only
\* when it is smaller, also when the comparison operating profit is
\* negative.
C26_ProfitInsightDirection ==
    Compared =>
      \A k \in Titled(result.ai.insights, ProfitTitles) :
         LET i == result.ai.insights[k]
             t == result.totals
         IN /\ i.title = "profit_improved" =>
                  i.type = "positive"
                  /\ t.operating_profit_target > t.operating_profit_comp
            /\ i.title = "profit_worsened" =>
                  i.type = "negative"
                  /\ t.operating_profit_target < t.operating_profit_comp

-----------------------------------------------------------------------------
(* The trend variance table: the join of the target and the comparison      *)
(* trend on display_label (lines 1418-1460)                                 *)

\* the trends a run joins
RunTrendTarget ==
    aggregate_profit_trend(args.ledger, result.frames.df_trend_base,
                           TimeCol(args.w.time_agg_type), args.w.is_cumulative)
RunTrendComp ==
    aggregate_profit_trend(args.ledger, result.frames.df_comp_trend_base,
                           TimeCol(args.w.time_agg_type), args.w.is_cumulative)

\* a run that shows a trend variance table
TrendCompared ==
    /\ Ran /\ result.error = "none" /\ ~result.no_data
    /\ RunActive /\ result.frames.df_comp_trend_base # {}

\* the quarter token at the end of a year-quarter label
QuarterOfLabel(label) == SubSeq(label, Len(label) - 1, Len(label))

\* C27: in the quarter-bucket trend variance table with a comparison year
\* that is not a target year, a quarter with data in the target year and in
\* the comparison year is a single row that carries the target quarter's
\* values together with the comparison year's values of the same quarter.
C27_QuartersPaired ==
    ( /\ TrendCompared
      /\ args.w.time_agg_type = "quarterly"
      /\ Cardinality(args.w.selected_years) = 1
      /\ args.w.comparison_year \notin args.w.selected_years )
    => \A i \in 1..Len(RunTrendTarget), j \in 1..Len(RunTrendComp) :
          LET t == RunTrendTarget[i]
              c == RunTrendComp[j]
              rows == {k \in 1..Len(result.df_trend_raw) :
                          QuarterOfLabel(result.df_trend_raw[k].display_label)
                             = QuarterOfLabel(t.display_label)}
          IN QuarterOfLabel(t.display_label) = QuarterOfLabel(c.display_label) =>
               /\ Cardinality(rows) = 1
               /\ \A k \in rows :
                     LET r == result.df_trend_raw[k]
                     IN /\ r.revenue = t.revenue
                        /\ r.revenue - r.revenue_delta = c.revenue
                        /\ r.operating_profit = t.operating_profit
                        /\ r.operating_profit - r.operating_profit_delta
                              = c.operating_profit

\* C28: in the month-bucket trend variance table every month of the
\* comparison trend gives its values to exactly one row, also with several
\* target years, so the comparison values of the table (value - delta) add
\* up to the totals of the non-cumulative comparison trend.
C28_ComparisonMonthsOnce ==
    ( /\ TrendCompared
      /\ args.w.time_agg_type = "monthly"
      /\ ~args.w.is_cumulative )
    => /\ \A j \in 1..Len(RunTrendComp) :
             Cardinality({k \in 1..Len(result.df_trend_raw) :
                             /\ result.df_trend_raw[k].display_label
                                   = RunTrendComp[j].display_label
                             /\ result.df_trend_raw[k].revenue
                                   - result.df_trend_raw[k].revenue_delta
                                   = RunTrendComp[j].revenue}) = 1
       /\ SumField(result.df_trend_raw, "revenue")
             - SumField(result.df_trend_raw, "revenue_delta")
             = SumField(RunTrendComp, "revenue")
       /\ SumField(result.df_trend_raw, "operating_profit")
             - SumField(result.df_trend_raw, "operating_profit_delta")
             = SumField(RunTrendComp, "operating_profit")

-----------------------------------------------------------------------------
(* The page run over sheets with the months 1, 2 and 10 and selections of   *)
(* some of the months                                                       *)

MaxMonthRows == 3

\* period, campus, revenue, manager_A cost of the sheet rows drawn from
MonthRowTypes ==
    << <<202302, S_A, 500, 600>>, <<202310, S_A, 700, 600>>,
       <<202401, S_A, 2000, 600>>, <<202402, S_A, 1000, 600>>,
       <<202410, S_A, 3000, 600>> >>

MonthSheets ==
    {[i \in 1..Len(ts) |-> RunRawRow(MonthRowTypes[ts[i]])] :
        ts \in {q \in SeqsUpTo(1..Len(MonthRowTypes), MaxMonthRows) :
                   \A i \in 1..(Len(q) - 1) : q[i] < q[i + 1]}}

MonthSelections(ledger) ==
    {[analysis_menu |-> "campus",
      selected_years |-> ys,
      selected_display_months |-> ms,
      selected_filter_values |-> [c \in MenuFilterColumns("campus") |-> {}],
      time_agg_type |-> t,
      is_cumulative |-> cum,
      comparison_year |-> cy,
      comparison_selected_display_months |-> display_months(ledger)] :
        ys \in (SUBSET all_years(ledger)) \ {{}},
        ms \in (SUBSET display_months(ledger)) \ {{}},
        t \in {"monthly", "quarterly"},
        cum \in BOOLEAN,
        cy \in {NOT_SELECTED} \cup all_years(ledger)}

InitRunMonths ==
    /\ \E rows \in MonthSheets :
         LET ledger == load_data(RawFile(AllRawCols, rows))
         IN \E wd \in MonthSelections(ledger) :
               args = [fn |-> "run", ledger |-> ledger, w |-> wd]
    /\ result = None
    /\ page = "upload" /\ uploaded_file = None /\ cache = <<>>
    /\ df = None /\ w = None /\ view = None

SpecRunMonths == InitRunMonths /\ [][NextRun]_vars

\* a run that shows a trend table
TrendShown == Ran /\ result.error = "none" /\ ~result.no_data

RECURSIVE SortedInts(_)
SortedInts(S) ==
    IF S = {} THEN <<>>
    ELSE LET m == CHOOSE x \in S : \A y \in S : x <= y
         IN <<m>> \o SortedInts(S \ {m})

\* the labels of the buckets of a frame in the order of time: the months by
\* period key, the quarters by year and quarter
ChronologicalLabels(ledger, frame, time_agg_type) ==
    IF time_agg_type = "monthly"
      THEN LET keys == SortedInts({ledger.rows[i]["sort_key"] : i \in frame})
           IN [k \in 1..Len(keys) |-> StrOfInt(keys[k] % 100)]
      ELSE SortedStrs({ledger.rows[i]["year_quarter"] : i \in frame})

\* the labels of a joined table are in the order of time: months by month
\* number, year-quarters by year and quarter
JoinedInOrder(rows, time_agg_type) ==
    \A k, l \in 1..Len(rows) :
       k < l =>
         IF time_agg_type = "monthly"
           THEN ValueOf(rows[k].display_label) <= ValueOf(rows[l].display_label)
           ELSE LexLeq(rows[k].display_label, rows[l].display_label)

RevenueAt(rows, label) ==
    {rows[k].revenue : k \in {j \in 1..Len(rows) : rows[j].display_label = label}}

\* C30: in the monthly trend chart the marker of each selected month has
\* the revenue of the trend line at that month, in the non-cumulative and
\* in the cumulative mode, for every non-empty selection of months, also
\* one that leaves out earlier months of the year.
C30_MarkersOnLine ==
    (TrendShown /\ args.w.time_agg_type = "monthly") =>
      /\ result.df_plot_target # NoTable
      /\ result.df_plot_target_markers # NoTable
      /\ \A k \in 1..Len(result.df_plot_target_markers) :
            LET m == result.df_plot_target_markers[k]
            IN m.revenue \in RevenueAt(result.df_plot_target, m.display_label)

=============================================================================
